---------------------------- MODULE Spec2Model ----------------------------
(***************************************************************************)
(* A model of go-uncalled (pkg/uncalled): the rule model of config.go, the *)
(* call-flow tracker of visitor.go and the per-call-site driver of         *)
(* analyzer.go.                                                            *)
(*                                                                         *)
(* Strings are sequences of one-character strings, so that prefix tests,   *)
(* concatenation, strings.Split and strings.Join are computed and not      *)
(* assumed.  A nil pointer or nil map entry is the empty sequence, a       *)
(* non-nil one a sequence of length one.                                   *)
(***************************************************************************)
EXTENDS Integers, Sequences, FiniteSets, TLC

VARIABLES pc, rule, cfg, other, err, arg, ret, unit, pos, diags

vars == <<pc, rule, cfg, other, err, arg, ret, unit, pos, diags>>

(***************************************************************************)
(* Bounds of the model.                                                    *)
(***************************************************************************)
MaxResults == 2
MaxRules == 2
MaxSuffix == 3
MaxChain == 3
MaxRuns == 2
MaxDepth == 2

(***************************************************************************)
(* Strings.                                                                *)
(***************************************************************************)
Dot == "."
Star == "*"
EmptyStr == <<>>

\* strings.HasPrefix(s, ".")
HasDotPrefix(s) == Len(s) > 0 /\ s[1] = Dot

\* s[1:] of a non-empty string
Tail1(s) == SubSeq(s, 2, Len(s))

RECURSIVE SplitFrom(_, _, _)
\* strings.Split(s, "."), scanning from position i with the part cur open.
SplitFrom(s, i, cur) ==
    IF i > Len(s) THEN <<cur>>
    ELSE IF s[i] = Dot THEN <<cur>> \o SplitFrom(s, i + 1, <<>>)
    ELSE SplitFrom(s, i + 1, Append(cur, s[i]))

SplitDot(s) == SplitFrom(s, 1, <<>>)

RECURSIVE JoinDot(_)
\* strings.Join(parts, ".")
JoinDot(parts) ==
    IF Len(parts) = 0 THEN <<>>
    ELSE IF Len(parts) = 1 THEN parts[1]
    ELSE parts[1] \o <<Dot>> \o JoinDot(Tail(parts))

RECURSIVE TrimLeftDots(_)
\* strings.TrimLeft(s, ".")
TrimLeftDots(s) ==
    IF Len(s) > 0 /\ s[1] = Dot THEN TrimLeftDots(Tail(s)) ELSE s

(***************************************************************************)
(* config.go: constants.                                                   *)
(***************************************************************************)
anyType == <<"_">>

NameChars ==
    {"a", "b", "c", "d", "e", "f", "g", "h", "i", "j", "k", "l", "m", "n",
     "o", "p", "q", "r", "s", "t", "u", "v", "w", "x", "y", "z",
     "0", "1", "2", "3", "4", "5", "6", "7", "8", "9", "-"}

\* reName.MatchString(s) for reName = ^[a-z0-9-]+$
reNameMatch(s) == Len(s) > 0 /\ \A i \in 1..Len(s) : s[i] \in NameChars

(***************************************************************************)
(* Semantic types (go/types) and their canonical string.  NilType is the   *)
(* nil types.Type; a named type prints as package path, dot, name, with a  *)
(* star in front of a pointer; a predeclared type has no package.          *)
(***************************************************************************)
NilType == [k |-> "nil"]
Named(ptr, pkg, name) == [k |-> "named", ptr |-> ptr, pkg |-> pkg, name |-> name]

TypeString(t) ==
    (IF t.ptr THEN <<Star>> ELSE <<>>)
        \o (IF Len(t.pkg) > 0 THEN t.pkg \o <<Dot>> ELSE <<>>)
        \o t.name

(***************************************************************************)
(* config.go: Result and Rule.  A Result is                                *)
(*   [Type, Pointer, Expect, idx, match]                                   *)
(* where Expect is <<>> (nil) or <<[Call, Args]>>, and match is <<>> (nil) *)
(* or <<resultTypes>>, the set captured by the closure build installs.     *)
(* A Rule is                                                               *)
(*   [Name, Category, Packages, Results, idx, expects, expectedCalls,      *)
(*    expectedTypes]                                                       *)
(* where expects is 0 (nil) or the position in Results of the result the   *)
(* pointer refers to.                                                      *)
(***************************************************************************)
NewResult(type, pointer, expect) ==
    [Type |-> type, Pointer |-> pointer, Expect |-> expect,
     idx |-> 0, match |-> <<>>]

NewRule(name, category, packages, results) ==
    [Name |-> name, Category |-> category, Packages |-> packages,
     Results |-> results, idx |-> 0, expects |-> 0,
     expectedCalls |-> {}, expectedTypes |-> {}]

NoError == "nil"

\* Result.name that leaves out the pointer marker.
ResultNameNoPointer(r, pkg) ==
    IF r.Type = anyType THEN EmptyStr
    ELSE IF HasDotPrefix(r.Type) THEN pkg \o r.Type
    ELSE r.Type

\* Result.name(pkg)
ResultName(r, pkg) ==
    IF r.Type = anyType THEN EmptyStr
    ELSE LET ptr == IF r.Pointer THEN <<Star>> ELSE <<>>
         IN  IF HasDotPrefix(r.Type) THEN ptr \o pkg \o r.Type
             ELSE ptr \o r.Type

RECURSIVE BuildPackages(_, _, _, _)
\* The loop over rule.Packages of Result.build, from package k on; acc is
\* [err, resultTypes, expectedCalls, expectedTypes].
BuildPackages(r, packages, k, acc) ==
    IF k > Len(packages) THEN acc
    ELSE
      LET name == ResultName(r, packages[k])
          types == acc.resultTypes \cup {name}
      IN  IF r.Expect = <<>>
          THEN BuildPackages(r, packages, k + 1, [acc EXCEPT !.resultTypes = types])
          ELSE IF r.Type = anyType
          THEN [acc EXCEPT !.err = "expected-and-wildcard", !.resultTypes = types]
          ELSE
            LET call == name \o r.Expect[1].Call
                parts == SplitDot(call)
                owner == JoinDot(SubSeq(parts, 1, Len(parts) - 1))
            IN  BuildPackages(r, packages, k + 1,
                    [acc EXCEPT !.resultTypes = types,
                                !.expectedCalls = @ \cup {call},
                                !.expectedTypes = @ \cup {owner}])

\* Result.build(rule) of the result at position i: the rule with the
\* result's matcher installed and the expected calls and types extended.
ResultBuild(rl, i) ==
    LET r == rl.Results[i]
        b == BuildPackages(r, rl.Packages, 1,
                 [err |-> NoError, resultTypes |-> {},
                  expectedCalls |-> rl.expectedCalls,
                  expectedTypes |-> rl.expectedTypes])
        grown == [rl EXCEPT !.expectedCalls = b.expectedCalls,
                            !.expectedTypes = b.expectedTypes]
    IN  IF b.err # NoError THEN [err |-> b.err, rule |-> grown]
        ELSE [err |-> NoError,
              rule |-> [grown EXCEPT !.Results[i].match = <<b.resultTypes>>]]

\* The closure Result.build installs as r.match.
ResultMatch(r, t) ==
    IF t = NilType THEN FALSE
    ELSE IF r.Type = anyType THEN TRUE
    ELSE TypeString(t) \in r.match[1]

RECURSIVE ScanExpectsLast(_, _)
\* The first loop of Rule.validate without its check for a second
\* expectation: the last result carrying one wins.
ScanExpectsLast(rl, i) ==
    IF i > Len(rl.Results) THEN [err |-> NoError, rule |-> rl]
    ELSE IF rl.Results[i].Expect # <<>>
    THEN ScanExpectsLast([rl EXCEPT !.Results[i].idx = i - 1, !.expects = i], i + 1)
    ELSE ScanExpectsLast(rl, i + 1)

RECURSIVE ScanExpects(_, _)
\* The first loop of Rule.validate, from result i on.
ScanExpects(rl, i) ==
    IF i > Len(rl.Results) THEN [err |-> NoError, rule |-> rl]
    ELSE IF rl.Results[i].Expect # <<>>
    THEN IF rl.expects # 0
         THEN [err |-> "multiple-expects", rule |-> rl]
         ELSE ScanExpects([rl EXCEPT !.Results[i].idx = i - 1, !.expects = i], i + 1)
    ELSE ScanExpects(rl, i + 1)

RECURSIVE BuildResults(_, _)
\* The second loop of Rule.validate, from result i on.
BuildResults(rl, i) ==
    IF i > Len(rl.Results) THEN [err |-> NoError, rule |-> rl]
    ELSE LET b == ResultBuild(rl, i)
         IN  IF b.err # NoError THEN b ELSE BuildResults(b.rule, i + 1)

\* Rule.validate: [err, rule], the rule being the receiver afterwards.
RuleValidate(rl) ==
    IF ~reNameMatch(rl.Name) THEN [err |-> "bad-name", rule |-> rl]
    ELSE IF Len(rl.Packages) = 0 THEN [err |-> "no-packages", rule |-> rl]
    ELSE IF Len(rl.Results) = 0 THEN [err |-> "no-results", rule |-> rl]
    ELSE
      LET s == ScanExpects(rl, 1)
      IN  IF s.err # NoError THEN s
          ELSE IF s.rule.expects = 0 THEN [err |-> "no-expects", rule |-> s.rule]
          ELSE BuildResults([s.rule EXCEPT !.expectedCalls = {},
                                           !.expectedTypes = {}], 1)

RECURSIVE MatchFrom(_, _, _)
\* The loop of Rule.matchesResults, from position i on.
MatchFrom(rl, res, i) ==
    IF i > Len(rl.Results) THEN TRUE
    ELSE IF ~ResultMatch(rl.Results[i], res[i]) THEN FALSE
    ELSE MatchFrom(rl, res, i + 1)

\* Rule.matchesResults searching for a matching type at any position.
matchesResultsAnyOrder(rl, res) ==
    /\ Len(res) = Len(rl.Results)
    /\ \A i \in 1..Len(rl.Results) :
          \E j \in 1..Len(res) : ResultMatch(rl.Results[i], res[j])

\* Rule.matchesResults(res), res the tuple of result types.
matchesResults(rl, res) ==
    IF Len(res) # Len(rl.Results) THEN FALSE ELSE MatchFrom(rl, res, 1)

\* Rule.matchesCall without its comparison of the argument counts.
matchesCallAnyArgs(rl, nargs, name) ==
    IF HasDotPrefix(rl.Results[rl.expects].Expect[1].Call)
    THEN Tail1(rl.Results[rl.expects].Expect[1].Call) = name
    ELSE rl.Results[rl.expects].Expect[1].Call = name

\* Rule.matchesCall(call, name), nargs being len(call.Args).
matchesCall(rl, nargs, name) ==
    LET e == rl.Results[rl.expects].Expect[1]
    IN  IF nargs # Len(e.Args) THEN FALSE
        ELSE IF HasDotPrefix(e.Call) THEN Tail1(e.Call) = name
        ELSE e.Call = name

(***************************************************************************)
(* config.go: Config.  A Config is                                         *)
(*   [DisableAll, Disabled, Enabled, Rules, rules, active]                 *)
(* with rules and active maps from rule name to Rule.  The Results of a    *)
(* Rule are pointers: the copy of a rule that validate works on shares     *)
(* them with the element of Rules it was copied from, so what validate     *)
(* writes into a Result shows in Rules too, while what it writes into the  *)
(* copy itself (expects, the expected calls and types, idx) does not.      *)
(***************************************************************************)
EmptyMap == <<>>

MapPut(m, k, v) == [x \in (DOMAIN m) \cup {k} |-> IF x = k THEN v ELSE m[x]]

MapDelete(m, k) == [x \in (DOMAIN m) \ {k} |-> m[x]]

NewConfig(disableAll, disabled, enabled, rules) ==
    [DisableAll |-> disableAll, Disabled |-> disabled, Enabled |-> enabled,
     Rules |-> rules, rules |-> EmptyMap, active |-> EmptyMap]

RECURSIVE ValidateRulesSkipping(_, _)
\* The loop over c.Rules of Config.validate going on to the next rule when
\* one fails validation, without registering the failed one.
ValidateRulesSkipping(c, i) ==
    IF i > Len(c.Rules) THEN [err |-> NoError, cfg |-> c]
    ELSE
      LET v == RuleValidate(c.Rules[i])
          shared == [c EXCEPT !.Rules[i].Results = v.rule.Results]
      IN  IF v.err # NoError THEN ValidateRulesSkipping(shared, i + 1)
          ELSE
            LET r == [v.rule EXCEPT !.idx = i - 1]
            IN  ValidateRulesSkipping(
                    [shared EXCEPT
                        !.active = IF c.DisableAll THEN @ ELSE MapPut(@, r.Name, r),
                        !.rules = MapPut(@, r.Name, r)],
                    i + 1)

RECURSIVE ValidateRules(_, _)
\* The loop over c.Rules of Config.validate, from rule i on: [err, cfg].
ValidateRules(c, i) ==
    IF i > Len(c.Rules) THEN [err |-> NoError, cfg |-> c]
    ELSE
      LET v == RuleValidate(c.Rules[i])
          shared == [c EXCEPT !.Rules[i].Results = v.rule.Results]
      IN  IF v.err # NoError THEN [err |-> v.err, cfg |-> shared]
          ELSE
            LET r == [v.rule EXCEPT !.idx = i - 1]
            IN  ValidateRules(
                    [shared EXCEPT
                        !.active = IF c.DisableAll THEN @ ELSE MapPut(@, r.Name, r),
                        !.rules = MapPut(@, r.Name, r)],
                    i + 1)

\* A loop over c.Disabled that neither checks nor records a name.
DisableRulesIgnored(c, i, disabled) ==
    [err |-> NoError, cfg |-> c, disabled |-> disabled]

RECURSIVE DisableRules(_, _, _)
\* The loop over c.Disabled of Config.validate: [err, cfg, disabled].
DisableRules(c, i, disabled) ==
    IF i > Len(c.Disabled) THEN [err |-> NoError, cfg |-> c, disabled |-> disabled]
    ELSE
      LET r == c.Disabled[i]
      IN  IF r \notin DOMAIN c.rules
          THEN [err |-> "disabled-unknown", cfg |-> c, disabled |-> disabled]
          ELSE DisableRules([c EXCEPT !.active = MapDelete(@, r)], i + 1,
                            disabled \cup {r})

RECURSIVE EnableRules(_, _, _)
\* The loop over c.Enabled of Config.validate: [err, cfg].
EnableRules(c, i, disabled) ==
    IF i > Len(c.Enabled) THEN [err |-> NoError, cfg |-> c]
    ELSE
      LET name == c.Enabled[i]
      IN  IF name \notin DOMAIN c.rules
          THEN [err |-> "enabled-unknown", cfg |-> c]
          ELSE IF name \in disabled
          THEN [err |-> "enabled-and-disabled", cfg |-> c]
          ELSE EnableRules([c EXCEPT !.active = MapPut(@, name, c.rules[name])],
                           i + 1, disabled)

\* Config.validate once the loop over c.Disabled has ended with d: the
\* loop over c.Enabled.
ValidateEnabled(d) ==
    IF d.err # NoError THEN [err |-> d.err, cfg |-> d.cfg]
    ELSE EnableRules(d.cfg, 1, d.disabled)

\* Config.validate once the loop over c.Rules has ended with v: the loop
\* over c.Disabled and what follows it.
ValidateDisabled(v) ==
    IF v.err # NoError THEN v ELSE ValidateEnabled(DisableRules(v.cfg, 1, {}))

\* Config.validate: [err, cfg], cfg being the receiver afterwards.
ConfigValidate(c) ==
    ValidateDisabled(ValidateRules([c EXCEPT !.active = EmptyMap, !.rules = EmptyMap], 1))

\* A merge that appends every rule of other.
MergeRulesAppendAll(c, others, i) == [c EXCEPT !.Rules = @ \o others]

RECURSIVE MergeRules(_, _, _)
\* The loop over other.Rules of Config.merge, from rule i on.
MergeRules(c, others, i) ==
    IF i > Len(others) THEN c
    ELSE
      LET otherRule == others[i]
      IN  IF otherRule.Name \in DOMAIN c.rules
          THEN MergeRules([c EXCEPT !.Rules[c.rules[otherRule.Name].idx + 1] = otherRule],
                          others, i + 1)
          ELSE MergeRules([c EXCEPT !.Rules = Append(@, otherRule)], others, i + 1)

\* Config.merge(other), o being <<>> for a nil other: [err, cfg].
ConfigMerge(c, o) ==
    IF o = <<>> THEN [err |-> NoError, cfg |-> c]
    ELSE ConfigValidate(
             MergeRules([c EXCEPT !.DisableAll = o[1].DisableAll,
                                  !.Disabled = o[1].Disabled,
                                  !.Enabled = o[1].Enabled],
                        o[1].Rules, 1))

\* What yaml.Marshal writes of a rule: its exported fields and those of
\* its results.
RuleYaml(rl) ==
    [Name |-> rl.Name, Category |-> rl.Category, Packages |-> rl.Packages,
     Results |-> [i \in 1..Len(rl.Results) |->
                    [Type |-> rl.Results[i].Type,
                     Pointer |-> rl.Results[i].Pointer,
                     Expect |-> rl.Results[i].Expect]]]

\* Config.yaml(): the serialised form of c, which holds the exported
\* fields of the configuration, of its rules and of their results.
ConfigYaml(c) ==
    [DisableAll |-> c.DisableAll, Disabled |-> c.Disabled, Enabled |-> c.Enabled,
     Rules |-> [k \in 1..Len(c.Rules) |-> RuleYaml(c.Rules[k])]]

\* Decoding that loses the category of a rule.
DecodedRuleNoCategory(rl) ==
    NewRule(rl.Name, EmptyStr, rl.Packages,
            [i \in 1..Len(rl.Results) |->
                NewResult(rl.Results[i].Type, rl.Results[i].Pointer,
                          rl.Results[i].Expect)])

\* What yaml.Marshal followed by Decode keeps of a rule: the exported
\* fields; the unexported ones start at their zero values.
DecodedRule(rl) ==
    NewRule(rl.Name, rl.Category, rl.Packages,
            [i \in 1..Len(rl.Results) |->
                NewResult(rl.Results[i].Type, rl.Results[i].Pointer,
                          rl.Results[i].Expect)])

\* The end of Config.copy: the decoded configuration, which load has
\* validated with the outcome loaded, is validated once more.
ValidateCopy(loaded) ==
    IF loaded.err # NoError THEN loaded ELSE ConfigValidate(loaded.cfg)

\* Config.copy: the configuration decoded from c's serialisation, loaded
\* (which validates it) and validated once more: [err, cfg].
ConfigCopy(c) ==
    ValidateCopy(ConfigValidate(
        NewConfig(c.DisableAll, c.Disabled, c.Enabled,
                  [i \in 1..Len(c.Rules) |-> DecodedRule(c.Rules[i])])))

(***************************************************************************)
(* Syntax trees (go/ast) with the type information the analysis reads.     *)
(* An identifier carries its name, its object (0 when the parser resolved  *)
(* none: the blank identifier, a name declared in another file) and the    *)
(* type TypesInfo.Types records for it (NilType when it records none).  A  *)
(* call carries sig: <<>> when the type of its callee is unknown or not a  *)
(* signature, else <<the tuple of result types>>.  A field of a parameter  *)
(* list carries its declared type and its names.                           *)
(***************************************************************************)
Ident(name, obj, typ) == [k |-> "ident", name |-> name, obj |-> obj, typ |-> typ]
Selector(x, sel) == [k |-> "sel", x |-> x, sel |-> sel]
CallExpr(fun, args, sig) == [k |-> "call", fun |-> fun, args |-> args, sig |-> sig]
FuncLit(params, body) == [k |-> "funclit", params |-> params, body |-> body]
Field(typ, names) == [typ |-> typ, names |-> names]
IndexExpr(x) == [k |-> "index", x |-> x]
BasicLit == [k |-> "lit"]
AssignStmt(lhs, rhs) == [k |-> "assign", lhs |-> lhs, rhs |-> rhs]
ExprStmt(x) == [k |-> "expr", x |-> x]
DeferStmt(call) == [k |-> "defer", call |-> call]
GoStmt(call) == [k |-> "go", call |-> call]
IfStmt(init, cond, body) == [k |-> "if", init |-> init, cond |-> cond, body |-> body]
ForStmt(cond, body) == [k |-> "for", cond |-> cond, body |-> body]

\* The children ast.Walk descends into, in its order.
Children(n) ==
    CASE n.k = "sel" -> <<n.x>>
      [] n.k = "call" -> <<n.fun>> \o n.args
      [] n.k = "funclit" -> n.body
      [] n.k = "index" -> <<n.x>>
      [] n.k = "assign" -> n.lhs \o n.rhs
      [] n.k = "expr" -> <<n.x>>
      [] n.k = "defer" -> <<n.call>>
      [] n.k = "go" -> <<n.call>>
      [] n.k = "if" -> n.init \o n.cond \o n.body
      [] n.k = "for" -> n.cond \o n.body
      [] OTHER -> <<>>

(***************************************************************************)
(* helpers.go                                                              *)
(***************************************************************************)
RECURSIVE rootIdent(_)
\* rootIdent(node): <<>> for nil, else <<the identifier>>.
rootIdent(n) ==
    IF n.k = "sel" THEN rootIdent(n.x)
    ELSE IF n.k = "ident" THEN <<n>>
    ELSE <<>>

RECURSIVE names(_)
\* names(node): the sequence of names; nil is the empty sequence, and
\* appending to nil gives a one-element sequence as it does in Go.
names(n) ==
    IF n.k = "sel" THEN Append(names(n.x), n.sel)
    ELSE IF n.k = "ident" THEN <<n.name>>
    ELSE <<>>

\* containsType(typ, rowTypes)
containsType(typ, rowTypes) ==
    IF typ = NilType THEN FALSE ELSE TypeString(typ) \in rowTypes

(***************************************************************************)
(* visitor.go.  The visitor is [identObjs, calledArgs, found]; calledArgs  *)
(* is the set of pairs <<object of a literal function, argument index>>.   *)
(***************************************************************************)
NewVisitor(ident) ==
    [identObjs |-> {ident.obj}, calledArgs |-> {}, found |-> FALSE]

RECURSIVE MatchesFromDropping(_, _, _)
\* The loop of visitor.assignStmtMatches that also forgets an identifier
\* assigned from something that is not tracked.
MatchesFromDropping(ec, stmt, i) ==
    IF i > Len(stmt.rhs) THEN ec
    ELSE IF stmt.lhs[i].k # "ident" THEN MatchesFromDropping(ec, stmt, i + 1)
    ELSE IF stmt.rhs[i].k = "ident" /\ stmt.rhs[i].obj \in ec.identObjs
    THEN MatchesFromDropping([ec EXCEPT !.identObjs = @ \cup {stmt.lhs[i].obj}],
                             stmt, i + 1)
    ELSE MatchesFromDropping([ec EXCEPT !.identObjs = @ \ {stmt.lhs[i].obj}],
                             stmt, i + 1)

RECURSIVE MatchesFrom(_, _, _)
\* The loop of visitor.assignStmtMatches, from right-hand side i on.
MatchesFrom(ec, stmt, i) ==
    IF i > Len(stmt.rhs) THEN ec
    ELSE IF stmt.rhs[i].k = "ident" /\ stmt.rhs[i].obj \in ec.identObjs
              /\ stmt.lhs[i].k = "ident"
    THEN MatchesFrom([ec EXCEPT !.identObjs = @ \cup {stmt.lhs[i].obj}], stmt, i + 1)
    ELSE MatchesFrom(ec, stmt, i + 1)

\* assignStmtMatches with the sides of the assignment taken for each other:
\* the right-hand side is recorded when the left-hand side is tracked.
assignStmtMatchesSwapped(ec, stmt) ==
    [ec EXCEPT !.identObjs =
        @ \cup {stmt.rhs[i].obj :
                  i \in {j \in 1..Len(stmt.rhs) :
                            /\ stmt.rhs[j].k = "ident"
                            /\ stmt.lhs[j].k = "ident"
                            /\ stmt.lhs[j].obj \in ec.identObjs}}]

\* visitor.assignStmtMatches
assignStmtMatches(ec, stmt) == MatchesFrom(ec, stmt, 1)

\* visitor.visitCallNode without its look-up of the receiver in
\* ec.identObjs.
visitCallNodeAnyReceiver(ec, rl, call, node) ==
    IF names(node) = <<>> THEN ec
    ELSE IF ~matchesCall(rl, Len(call.args), JoinDot(Tail(names(node)))) THEN ec
    ELSE IF rootIdent(node) = <<>> THEN ec
    ELSE IF rootIdent(node)[1].typ = NilType THEN ec
    ELSE IF (IF JoinDot(Tail(names(node))) = EmptyStr
             THEN TypeString(rootIdent(node)[1].typ)
             ELSE TypeString(rootIdent(node)[1].typ) \o <<Dot>>
                      \o JoinDot(Tail(names(node)))) \notin rl.expectedCalls
    THEN ec
    ELSE [ec EXCEPT !.found = TRUE]

\* visitor.visitCallNode: the call is the expected one on a tracked object.
visitCallNode(ec, rl, call, node) ==
    LET parts == names(node)
        name == JoinDot(Tail(parts))
        root == rootIdent(node)
    IN  IF parts = <<>> THEN ec
        ELSE IF ~matchesCall(rl, Len(call.args), name) THEN ec
        ELSE IF root = <<>> \/ root[1].typ = NilType THEN ec
        ELSE
          LET full == IF name = EmptyStr THEN TypeString(root[1].typ)
                      ELSE TypeString(root[1].typ) \o <<Dot>> \o name
          IN  IF full \notin rl.expectedCalls THEN ec
              ELSE IF root[1].obj \notin ec.identObjs THEN ec
              ELSE [ec EXCEPT !.found = TRUE]

\* The loop over ec.identObjs of visitor.visitCallIdent that looks at the
\* first object of the range only.
RangeIdentObjsFirst(objs, ec, call, ident, i) ==
    /\ objs # <<>>
    /\ call.args[i].obj = Head(objs)
    /\ <<ident.obj, i - 1>> \in ec.calledArgs

RECURSIVE RangeIdentObjs(_, _, _, _, _)
\* The loop over ec.identObjs of visitor.visitCallIdent for the identifier
\* argument i, the range handing out the objects in the order objs: whether
\* it sets ec.found.
RangeIdentObjs(objs, ec, call, ident, i) ==
    IF objs = <<>> THEN FALSE
    ELSE IF call.args[i].obj = Head(objs) /\ <<ident.obj, i - 1>> \in ec.calledArgs
    THEN TRUE
    ELSE RangeIdentObjs(Tail(objs), ec, call, ident, i)

RECURSIVE ArgsFrom(_, _, _, _)
\* The loop over call.Args of visitor.visitCallIdent, from argument i on.
ArgsFrom(ec, call, ident, i) ==
    IF i > Len(call.args) THEN ec
    ELSE IF call.args[i].k = "ident" /\ call.args[i].obj \in ec.identObjs
              /\ <<ident.obj, i - 1>> \in ec.calledArgs
    THEN [ec EXCEPT !.found = TRUE]
    ELSE ArgsFrom(ec, call, ident, i + 1)

\* visitor.visitCallIdent
visitCallIdent(ec, rl, call, ident) ==
    LET v == visitCallNode(ec, rl, call, ident)
    IN  IF v.found THEN v ELSE ArgsFrom(ec, call, ident, 1)

\* visitor.visitCallExpr
visitCallExpr(ec, rl, call) ==
    IF call.fun.k = "sel" THEN visitCallNode(ec, rl, call, call.fun)
    ELSE IF call.fun.k = "ident" THEN visitCallIdent(ec, rl, call, call.fun)
    ELSE ec

RECURSIVE Walk(_, _, _)
RECURSIVE WalkList(_, _, _, _)
RECURSIVE visit(_, _, _)
RECURSIVE FuncLitFrom(_, _, _, _)
RECURSIVE FieldsFrom(_, _, _, _, _, _)
RECURSIVE ParamsFrom(_, _, _, _, _, _)

\* The loop over f.Names of visitor.assignStmtFuncLit, from name j on, for
\* the literal lit assigned to the identifier h.
ParamsFrom(ec, rl, h, lit, f, j) ==
    IF j > Len(f.names) THEN ec
    ELSE IF visit(rl, f.names[j], lit.body)
    THEN ParamsFrom([ec EXCEPT !.calledArgs = @ \cup {<<h.obj, j - 1>>}],
                    rl, h, lit, f, j + 1)
    ELSE ParamsFrom(ec, rl, h, lit, f, j + 1)

\* The loop over lit.Type.Params.List of visitor.assignStmtFuncLit.
FieldsFrom(ec, rl, h, lit, fields, m) ==
    IF m > Len(fields) THEN ec
    ELSE IF ~containsType(fields[m].typ, rl.expectedTypes)
    THEN FieldsFrom(ec, rl, h, lit, fields, m + 1)
    ELSE FieldsFrom(ParamsFrom(ec, rl, h, lit, fields[m], 1), rl, h, lit, fields, m + 1)

\* The loop over stmt.Rhs of visitor.assignStmtFuncLit, from i on.
FuncLitFrom(ec, rl, stmt, i) ==
    IF i > Len(stmt.rhs) THEN ec
    ELSE IF stmt.rhs[i].k # "funclit" THEN FuncLitFrom(ec, rl, stmt, i + 1)
    ELSE IF Len(stmt.rhs[i].body) = 0 THEN FuncLitFrom(ec, rl, stmt, i + 1)
    ELSE IF stmt.lhs[i].k # "ident" THEN FuncLitFrom(ec, rl, stmt, i + 1)
    ELSE FuncLitFrom(
             FieldsFrom(ec, rl, stmt.lhs[i], stmt.rhs[i], stmt.rhs[i].params, 1),
             rl, stmt, i + 1)

\* visitor.assignStmtFuncLit whose runs over the bodies of the literals
\* leave the parameters of the literals in the alias set of ec.
assignStmtFuncLitJoining(ec, rl, stmt) ==
    [FuncLitFrom(ec, rl, stmt, 1) EXCEPT
        !.identObjs = @ \cup
            {stmt.rhs[i[1]].params[i[2]].names[i[3]].obj :
                i \in {t \in (1..Len(stmt.rhs)) \X (1..2) \X (1..2) :
                         /\ stmt.rhs[t[1]].k = "funclit"
                         /\ t[2] <= Len(stmt.rhs[t[1]].params)
                         /\ t[3] <= Len(stmt.rhs[t[1]].params[t[2]].names)}}]

\* visitor.assignStmtFuncLit
assignStmtFuncLit(ec, rl, stmt) == FuncLitFrom(ec, rl, stmt, 1)

\* visitor.visitAssignStmt
visitAssignStmt(ec, rl, stmt) ==
    assignStmtFuncLit(assignStmtMatches(ec, stmt), rl, stmt)

\* ast.Walk(ec, n) with visitor.Visit: once found, Visit returns nil and
\* nothing below or after the node changes the visitor.
Walk(ec, rl, n) ==
    IF ec.found THEN ec
    ELSE IF n.k = "call"
    THEN LET v == visitCallExpr(ec, rl, n)
         IN  IF v.found THEN v ELSE WalkList(v, rl, Children(n), 1)
    ELSE IF n.k = "assign"
    THEN WalkList(visitAssignStmt(ec, rl, n), rl, Children(n), 1)
    ELSE WalkList(ec, rl, Children(n), 1)

WalkList(ec, rl, list, i) ==
    IF i > Len(list) \/ ec.found THEN ec
    ELSE WalkList(Walk(ec, rl, list[i]), rl, list, i + 1)

\* visit(pass, log, rule, ident, stmts)
visit(rl, ident, stmts) == WalkList(NewVisitor(ident), rl, stmts, 1).found

(***************************************************************************)
(* analyzer.go.  A diagnostic is [site, at, node, rule, category, message]:*)
(* site numbers the call expression it was raised for, at tells whether    *)
(* its range is the bound identifier or the call, node is that identifier  *)
(* or call, and rule names the rule report was called with.  The reported  *)
(* diagnostics are a bag, a function from diagnostic to its count.         *)
(***************************************************************************)
MustBeCalled == <<" must be called">>

RECURSIVE JoinComma(_)
\* strings.Join(args, ",")
JoinComma(args) ==
    IF Len(args) = 0 THEN <<>>
    ELSE IF Len(args) = 1 THEN args[1]
    ELSE args[1] \o <<",">> \o JoinComma(Tail(args))

\* Rule.name that keeps the leading dots of the type.
RuleNameKeepDots(rl, ident) ==
    LET e == rl.Results[rl.expects]
        id == IF ident = EmptyStr THEN e.Type ELSE ident
    IN  id \o e.Expect[1].Call \o <<"(">> \o JoinComma(e.Expect[1].Args) \o <<")">>

\* Rule.name(ident)
RuleName(rl, ident) ==
    LET e == rl.Results[rl.expects]
        id == IF ident = EmptyStr THEN TrimLeftDots(e.Type) ELSE ident
    IN  id \o e.Expect[1].Call \o <<"(">> \o JoinComma(e.Expect[1].Args) \o <<")">>

\* analyzer.report(rng, rule, name): the diagnostic passed to pass.Report.
report(site, at, node, rl, name) ==
    [site |-> site, at |-> at, node |-> node, rule |-> rl.Name,
     category |-> rl.Category,
     message |-> RuleName(rl, name) \o MustBeCalled]

BagAdd(b, d) ==
    IF d \in DOMAIN b THEN [b EXCEPT ![d] = @ + 1] ELSE MapPut(b, d, 1)

RECURSIVE BagAddAll(_, _)
BagAddAll(b, ds) == IF Len(ds) = 0 THEN b ELSE BagAddAll(BagAdd(b, Head(ds)), Tail(ds))

RECURSIVE NarrowFrom(_, _, _, _)
\* The loop over rule.Packages of analyzer.buildConfig: the imported
\* packages of pkgs from position i on, in order.
NarrowFrom(pkgs, imports, i, kept) ==
    IF i > Len(pkgs) THEN kept
    ELSE IF pkgs[i] \notin imports THEN NarrowFrom(pkgs, imports, i + 1, kept)
    ELSE NarrowFrom(pkgs, imports, i + 1, Append(kept, pkgs[i]))

\* The backing array of rule.Packages after the loop wrote the kept
\* packages over its front: the slice held by the maps keeps its length.
Compacted(pkgs, kept) == kept \o SubSeq(pkgs, Len(kept) + 1, Len(pkgs))

RECURSIVE BuildFrom(_, _, _)
\* The loop over the active rules of analyzer.buildConfig, todo being the
\* names still to come.  The narrowed slice header stays in the loop's copy
\* of the rule; the array it wrote to is the one every copy of the rule
\* shares.
BuildFrom(c, imports, todo) ==
    IF todo = {} THEN c
    ELSE
      LET n == CHOOSE x \in todo : TRUE
          r == c.active[n]
          kept == NarrowFrom(r.Packages, imports, 1, <<>>)
          arr == Compacted(r.Packages, kept)
          shared == [c EXCEPT
                       !.active[n].Packages = arr,
                       !.rules = [x \in DOMAIN @ |->
                                    IF x = n /\ @[x].idx = r.idx
                                    THEN [@[x] EXCEPT !.Packages = arr] ELSE @[x]],
                       !.Rules[r.idx + 1].Packages = arr]
      IN  IF Len(kept) = 0
          THEN BuildFrom([shared EXCEPT !.active = MapDelete(@, n)], imports, todo \ {n})
          ELSE BuildFrom(shared, imports, todo \ {n})

\* analyzer.buildConfig that keeps every active rule whatever the unit
\* imports.
buildConfigKeepAll(c, imports) == c

\* analyzer.buildConfig(imports): the configuration afterwards; it returns
\* true when active rules are left.
buildConfig(c, imports) == BuildFrom(c, imports, DOMAIN c.active)

RECURSIVE SitesIn(_, _)
RECURSIVE SitesInList(_, _, _)
RECURSIVE SitesOfBlock(_, _)
\* restOfBlock that returns the whole block instead of the suffix that
\* starts with the statement of the call.
RECURSIVE SitesOfBlockWhole(_, _)
SitesOfBlockWhole(list, j) ==
    IF j > Len(list) THEN <<>>
    ELSE SitesIn(list[j], list) \o SitesOfBlockWhole(list, j + 1)

\* The call expressions the inspector hands to analyzer.visit below the
\* node n, in its order, each with what restOfBlock returns for its stack:
\* rest is the suffix of the innermost enclosing block, starting with the
\* statement the node is in (empty when no block encloses it).
SitesIn(n, rest) ==
    IF n.k = "call"
    THEN <<[call |-> n, stmts |-> rest]>> \o SitesInList(Children(n), rest, 1)
    ELSE IF n.k = "funclit" THEN SitesOfBlock(n.body, 1)
    ELSE IF n.k = "if"
    THEN SitesInList(n.init \o n.cond, rest, 1) \o SitesOfBlock(n.body, 1)
    ELSE IF n.k = "for"
    THEN SitesInList(n.cond, rest, 1) \o SitesOfBlock(n.body, 1)
    ELSE SitesInList(Children(n), rest, 1)

SitesInList(list, rest, i) ==
    IF i > Len(list) THEN <<>>
    ELSE SitesIn(list[i], rest) \o SitesInList(list, rest, i + 1)

\* restOfBlock for the statements of one block: statement j and the rest.
SitesOfBlock(list, j) ==
    IF j > Len(list) THEN <<>>
    ELSE SitesIn(list[j], SubSeq(list, j, Len(list))) \o SitesOfBlock(list, j + 1)

\* Of a unit, imports are the import paths, globals the initialisers of
\* package-level variables (no block encloses them) and body the statements
\* of a function body.
Sites(u) == SitesInList(u.globals, <<>>, 1) \o SitesOfBlock(u.body, 1)

RECURSIVE CheckAll(_, _, _, _, _)
\* The loop over a.cfg.active that ends analyzer.checkRule, todo being the
\* names still to come.  Its passes do not depend on each other and the
\* reports are collected in a bag, so the order of the range is immaterial.
CheckAll(active, todo, site, ident, stmts) ==
    IF todo = {} THEN <<>>
    ELSE
      LET n == CHOOSE x \in todo : TRUE
          more == CheckAll(active, todo \ {n}, site, ident, stmts)
      IN  IF visit(active[n], ident, stmts) THEN more
          ELSE <<report(site, "ident", ident, active[n], ident.name)>> \o more

\* checkRule without its branch for a call in the last statement of its
\* block: the tracker runs over an empty suffix.
checkRuleWithoutLast(active, rl, site, s) ==
    IF ~matchesResults(rl, s.call.sig[1]) THEN [panic |-> FALSE, diags |-> <<>>]
    ELSE IF Len(s.stmts) = 0 THEN [panic |-> TRUE, diags |-> <<>>]
    ELSE IF s.stmts[1].k # "assign"
    THEN [panic |-> FALSE, diags |-> <<report(site, "call", s.call, rl, EmptyStr)>>]
    ELSE IF rl.Results[rl.expects].idx + 1 > Len(s.stmts[1].lhs)
    THEN [panic |-> TRUE, diags |-> <<>>]
    ELSE
      LET root == rootIdent(s.stmts[1].lhs[rl.Results[rl.expects].idx + 1])
      IN  IF root = <<>> THEN [panic |-> FALSE, diags |-> <<>>]
          ELSE [panic |-> FALSE,
                diags |-> CheckAll(active, DOMAIN active, site, root[1], Tail(s.stmts))]

\* analyzer.checkRule(rule, call, sig, stack) for the site numbered site:
\* [panic, diags].  An index out of range panics.
checkRule(active, rl, site, s) ==
    IF ~matchesResults(rl, s.call.sig[1]) THEN [panic |-> FALSE, diags |-> <<>>]
    ELSE IF Len(s.stmts) = 0 THEN [panic |-> TRUE, diags |-> <<>>]
    ELSE IF s.stmts[1].k # "assign"
    THEN [panic |-> FALSE, diags |-> <<report(site, "call", s.call, rl, EmptyStr)>>]
    ELSE IF rl.Results[rl.expects].idx + 1 > Len(s.stmts[1].lhs)
    THEN [panic |-> TRUE, diags |-> <<>>]
    ELSE
      LET root == rootIdent(s.stmts[1].lhs[rl.Results[rl.expects].idx + 1])
      IN  IF root = <<>> THEN [panic |-> FALSE, diags |-> <<>>]
          ELSE IF Len(s.stmts) < 2
          THEN [panic |-> FALSE,
                diags |-> <<report(site, "ident", root[1], rl, root[1].name)>>]
          ELSE [panic |-> FALSE,
                diags |-> CheckAll(active, DOMAIN active, site, root[1], Tail(s.stmts))]

\* Whether analyzer.visit(node, push, stack) hands the pushed call
\* expression to checkRule: its callee is a selector whose type is a known
\* signature.
Inspected(s) == s.call.fun.k = "sel" /\ s.call.sig # <<>>

RECURSIVE DiagsOf(_, _, _, _)
\* The reports of checkRule for the rules named in todo.
DiagsOf(active, todo, site, s) ==
    IF todo = {} THEN <<>>
    ELSE LET n == CHOOSE x \in todo : TRUE
         IN  checkRule(active, active[n], site, s).diags
                 \o DiagsOf(active, todo \ {n}, site, s)

\* The rules for which checkRule panics at the site.
Panicking(active, site, s) ==
    {n \in DOMAIN active : checkRule(active, active[n], site, s).panic}

(***************************************************************************)
(* Inputs: the rules of the embedded default configuration, and for each   *)
(* of them the family of syntax the analysis meets: the call that produces *)
(* the watched result, the variables bound to it and the statements that   *)
(* may follow.  Package paths, type names and rule names are shortened:    *)
(* sql for database/sql, x.io/sqlx for github.com/jmoiron/sqlx, http for   *)
(* net/http, ctx for context, Resp for Response, Ctx for Context, Cancel   *)
(* for CancelFunc.                                                         *)
(***************************************************************************)
SeqsUpTo(S, n) == UNION {[1..m -> S] : m \in 0..n}

PkgSql == <<"s", "q", "l">>
PkgSqlx == <<"x", ".", "i", "o", "/", "s", "q", "l", "x">>
PkgHttp == <<"h", "t", "t", "p">>
PkgCtx == <<"c", "t", "x">>

ErrorType == Named(FALSE, <<>>, <<"e", "r", "r", "o", "r">>)
IntType == Named(FALSE, <<>>, <<"i", "n", "t">>)
RowsType == Named(TRUE, PkgSql, <<"R", "o", "w", "s">>)
SqlxRowsType == Named(TRUE, PkgSqlx, <<"R", "o", "w", "s">>)
RespType == Named(TRUE, PkgHttp, <<"R", "e", "s", "p">>)
CancelType == Named(FALSE, PkgCtx, <<"C", "a", "n", "c", "e", "l">>)
ContextType == Named(FALSE, PkgCtx, <<"C", "t", "x">>)

Expect(call, args) == <<[Call |-> call, Args |-> args]>>

CallErr == <<".", "E", "r", "r">>
CallClose == <<".", "C", "l", "o", "s", "e">>
CallBodyClose == <<".", "B", "o", "d", "y", ".", "C", "l", "o", "s", "e">>

RuleSql ==
    NewRule(<<"s", "q", "l", "-", "e", "r", "r">>, <<"s", "q", "l">>,
            <<PkgSql, PkgSqlx>>,
            <<NewResult(<<".", "R", "o", "w", "s">>, TRUE, Expect(CallErr, <<>>)),
              NewResult(<<"e", "r", "r", "o", "r">>, FALSE, <<>>)>>)

RuleSqlClose ==
    NewRule(<<"s", "q", "l", "-", "c", "l", "o", "s", "e">>, <<"s", "q", "l">>,
            <<PkgSql, PkgSqlx>>,
            <<NewResult(<<".", "R", "o", "w", "s">>, TRUE, Expect(CallClose, <<>>)),
              NewResult(<<"e", "r", "r", "o", "r">>, FALSE, <<>>)>>)

RuleHttp ==
    NewRule(<<"h", "t", "t", "p", "-", "c", "l", "o", "s", "e">>, <<"h", "t", "t", "p">>,
            <<PkgHttp>>,
            <<NewResult(<<".", "R", "e", "s", "p">>, TRUE, Expect(CallBodyClose, <<>>)),
              NewResult(<<"e", "r", "r", "o", "r">>, FALSE, <<>>)>>)

RuleCtx ==
    NewRule(<<"c", "t", "x", "-", "c", "a", "n", "c", "e", "l">>, <<"c", "t", "x">>,
            <<PkgCtx>>,
            <<NewResult(<<".", "C", "t", "x">>, FALSE, <<>>),
              NewResult(<<".", "C", "a", "n", "c", "e", "l">>, FALSE, Expect(<<>>, <<>>))>>)

\* A rule of a user's configuration file: no category, and an expected
\* call that takes two arguments.
RuleCustom ==
    NewRule(<<"s", "q", "l", "-", "s", "c", "a", "n">>, <<>>, <<PkgSql>>,
            <<NewResult(<<".", "R", "o", "w", "s">>, TRUE,
                        Expect(<<".", "S", "c", "a", "n">>, <<<<"a">>, <<"b">>>>)),
              NewResult(<<"e", "r", "r", "o", "r">>, FALSE, <<>>)>>)

DefaultConfig == NewConfig(FALSE, <<>>, <<>>, <<RuleSql, RuleHttp, RuleCtx>>)

\* The configuration of a user's file holding the rule above.
CustomConfig == NewConfig(FALSE, <<>>, <<>>, <<RuleCustom, RuleHttp>>)

\* A configuration with two rules watching the same result shape.
OverlapConfig == NewConfig(FALSE, <<>>, <<>>, <<RuleSql, RuleHttp, RuleCtx, RuleSqlClose>>)

\* The families: the rule, the watched type, the result types of the
\* producing call, the selector path of the expected call and the package
\* of another rule the unit may import as well.
FamSql == [rule |-> RuleSql, T |-> RowsType, sig |-> <<RowsType, ErrorType>>,
           path |-> <<<<"E", "r", "r">>>>, pkg |-> PkgSql, otherPkg |-> PkgHttp]
FamHttp == [rule |-> RuleHttp, T |-> RespType, sig |-> <<RespType, ErrorType>>,
            path |-> <<<<"B", "o", "d", "y">>, <<"C", "l", "o", "s", "e">>>>,
            pkg |-> PkgHttp, otherPkg |-> PkgCtx]
FamCtx == [rule |-> RuleCtx, T |-> CancelType, sig |-> <<ContextType, CancelType>>,
           path |-> <<>>, pkg |-> PkgCtx, otherPkg |-> PkgSql]

\* The rows of the second package of the sql rule, returned by a function
\* of a package the rules do not name: the unit imports the first package of
\* the rule and not the second.
FamSqlx == [rule |-> RuleSql, T |-> SqlxRowsType, sig |-> <<SqlxRowsType, ErrorType>>,
            path |-> <<<<"E", "r", "r">>>>, pkg |-> PkgSql, otherPkg |-> PkgHttp]

Fams == {FamSql, FamSqlx, FamHttp, FamCtx}

\* The variables: x is bound to the watched result, y to the other result,
\* o is another variable of the watched type, h a literal function, p its
\* parameter, and Alias(i) the i-th variable of an assignment chain from x.
VarX(f) == Ident(<<"x">>, 1, f.T)
VarY(f) == Ident(<<"y">>, 2, IF f.sig[1] = f.T THEN f.sig[2] ELSE f.sig[1])
VarO(f) == Ident(<<"o">>, 3, f.T)
VarH == Ident(<<"h">>, 4, NilType)
VarP(f) == Ident(<<"p">>, 5, f.T)
VarDb == Ident(<<"d", "b">>, 6, NilType)
VarArr == Ident(<<"a", "r", "r">>, 7, NilType)
Alias(f, i) == IF i = 0 THEN VarX(f) ELSE Ident(<<"a", "l", "i", "a", "s">>, 10 + i, f.T)

RECURSIVE SelPath(_, _)
SelPath(v, path) ==
    IF Len(path) = 0 THEN v
    ELSE Selector(SelPath(v, SubSeq(path, 1, Len(path) - 1)), path[Len(path)])

\* v.Err(), v.Body.Close(), v(): the expected call of the family on v.
ExpectedCall(f, v) ==
    IF Len(f.path) = 0 THEN CallExpr(v, <<>>, <<>>)
    ELSE CallExpr(SelPath(v, f.path), <<>>, <<<<ErrorType>>>>)

\* v.Next(): another method of the watched value.
OtherCall(f, v) == CallExpr(Selector(v, <<"N", "e", "x", "t">>), <<>>, <<<<ErrorType>>>>)

\* db.Query(""): the call whose results the family's rule watches.
Producer(f) == CallExpr(Selector(VarDb, <<"Q">>), <<BasicLit>>, <<f.sig>>)

\* query(""): the producing call with a bare identifier as callee, a
\* function of the unit's own package.
ProducerIdent(f) == CallExpr(Ident(<<"q">>, 8, NilType), <<BasicLit>>, <<f.sig>>)

\* db.Q[T](""): the producing call with an explicitly instantiated generic
\* callee, an index expression.
ProducerGeneric(f) ==
    CallExpr(IndexExpr(Selector(VarDb, <<"Q">>)), <<BasicLit>>, <<f.sig>>)

\* The left-hand sides binding v to the watched result.
Binding(f, v) == IF f.sig[1] = f.T THEN <<v, VarY(f)>> ELSE <<VarY(f), v>>

StmtAlias(f, i) == AssignStmt(<<Alias(f, i)>>, <<Alias(f, i - 1)>>)
StmtCall(f, v) == ExprStmt(ExpectedCall(f, v))
StmtLoop(f) == ForStmt(<<OtherCall(f, VarX(f))>>, <<>>)
StmtDeferLit(f, v) == DeferStmt(CallExpr(FuncLit(<<>>, <<StmtCall(f, v)>>), <<>>, <<>>))
StmtIfCall(f, v) == IfStmt(<<>>, <<BasicLit>>, <<StmtCall(f, v)>>)
StmtHandler(f, body) ==
    AssignStmt(<<VarH>>,
               <<FuncLit(<<Field(f.T, <<VarP(f)>>)>>,
                         <<IF body = "expected" THEN StmtCall(f, VarP(f))
                           ELSE ExprStmt(OtherCall(f, VarP(f)))>>)>>)
StmtInvoke(f, v) == ExprStmt(CallExpr(VarH, <<v>>, <<>>))
StmtDeferInvoke(f, v) == DeferStmt(CallExpr(VarH, <<v>>, <<>>))
StmtGoInvoke(f, v) == GoStmt(CallExpr(VarH, <<v>>, <<>>))

\* The statement holding the producing call, by kind.
FirstStmt(f, kind) ==
    CASE kind = "assign" -> AssignStmt(Binding(f, VarX(f)), <<Producer(f)>>)
      [] kind = "ident" -> AssignStmt(Binding(f, VarX(f)), <<ProducerIdent(f)>>)
      [] kind = "generic" -> AssignStmt(Binding(f, VarX(f)), <<ProducerGeneric(f)>>)
      [] kind = "expr" -> ExprStmt(Producer(f))
      [] kind = "index" -> AssignStmt(Binding(f, IndexExpr(VarArr)), <<Producer(f)>>)
      [] kind = "if" -> IfStmt(<<AssignStmt(Binding(f, VarX(f)), <<Producer(f)>>)>>,
                               <<BasicLit>>, <<>>)

\* The statements that may follow the producing call in a unit, by number.
SuffixKinds == 1..5

SuffixStmt(f, i) ==
    CASE i = 1 -> StmtAlias(f, 1)
      [] i = 2 -> StmtCall(f, VarX(f))
      [] i = 3 -> StmtCall(f, Alias(f, 1))
      [] i = 4 -> StmtLoop(f)
      [] i = 5 -> StmtDeferLit(f, VarX(f))

\* The import paths of a unit among the packages the rules name: that of
\* the family, that of another rule, both or none.
ImportSets(f) == {{f.pkg}, {f.pkg, f.otherPkg}, {f.otherPkg}, {}}

Configs(f) ==
    IF f = FamSql THEN {DefaultConfig, OverlapConfig, CustomConfig} ELSE {DefaultConfig}

\* A unit: a function whose body binds the producing call in a statement
\* of some kind and goes on with the statements numbered in suf, or
\* (kind global) a package-level variable initialised by the producing call.
Unit(f, kind, c, imp, suf) ==
    [fam |-> f, kind |-> kind, cfg |-> c, imports |-> imp,
     globals |-> IF kind = "global" THEN <<Producer(f)>> ELSE <<>>,
     body |-> IF kind = "global" THEN <<StmtCall(f, VarO(f))>>
              ELSE <<FirstStmt(f, kind)>>
                       \o [i \in 1..Len(suf) |-> SuffixStmt(f, suf[i])]]

\* The units analysed: with the producing call in an assignment any suffix
\* up to MaxSuffix statements, otherwise at most one statement.
UnitShapes ==
    {<<kind, suf>> \in {"assign"} \X SeqsUpTo(SuffixKinds, MaxSuffix) : TRUE}
        \cup ({"expr", "index", "if", "ident", "generic"} \X SeqsUpTo(SuffixKinds, 1))
        \cup {<<"global", <<>> >>}

(***************************************************************************)
(* The analysis of one unit: loader.run builds an analyzer with the        *)
(* validated configuration, analyzer.run narrows it to the unit's imports  *)
(* and hands every call expression to analyzer.visit.                      *)
(***************************************************************************)
Init ==
    /\ \E f \in Fams, sh \in UnitShapes :
          \E c \in (IF sh[1] = "assign" THEN Configs(f) ELSE {DefaultConfig}),
             imp \in (IF sh[1] = "global" THEN {{f.pkg}} ELSE ImportSets(f)) :
              unit = Unit(f, sh[1], c, imp, sh[2])
    /\ cfg = ConfigValidate(unit.cfg).cfg
    /\ pc = "run"
    /\ pos = 1
    /\ diags = EmptyMap
    /\ rule = <<>>
    /\ other = <<>>
    /\ err = NoError
    /\ arg = <<>>
    /\ ret = FALSE

\* analyzer.run up to the inspection: buildConfig.
BuildConfig ==
    /\ pc = "run"
    /\ cfg' = buildConfig(cfg, unit.imports)
    /\ pc' = IF DOMAIN cfg'.active = {} THEN "done" ELSE "visit"
    /\ UNCHANGED <<rule, other, err, arg, ret, unit, pos, diags>>

\* analyzer.visit for the next call expression of the unit.  The range
\* over the active rules runs in any order: when no checkRule panics every
\* rule is checked; when one does, the rules checked before it are any of
\* those that do not panic.
VisitCall ==
    /\ pc = "visit"
    /\ pos <= Len(Sites(unit))
    /\ LET s == Sites(unit)[pos]
           bad == IF Inspected(s) THEN Panicking(cfg.active, pos, s) ELSE {}
       IN  IF ~Inspected(s)
           THEN /\ diags' = diags
                /\ pc' = "visit"
           ELSE IF bad = {}
           THEN /\ diags' = BagAddAll(diags, DiagsOf(cfg.active, DOMAIN cfg.active, pos, s))
                /\ pc' = "visit"
           ELSE /\ \E before \in SUBSET ((DOMAIN cfg.active) \ bad) :
                      diags' = BagAddAll(diags, DiagsOf(cfg.active, before, pos, s))
                /\ pc' = "panic"
    /\ pos' = pos + 1
    /\ UNCHANGED <<rule, cfg, other, err, arg, ret, unit>>

\* The inspection has handed over every call expression.
Finish ==
    /\ pc = "visit"
    /\ pos > Len(Sites(unit))
    /\ pc' = "done"
    /\ UNCHANGED <<rule, cfg, other, err, arg, ret, unit, pos, diags>>

Next == BuildConfig \/ VisitCall \/ Finish

Spec == Init /\ [][Next]_vars


\* More variables: x2 is bound to the result of a second producing call, g
\* is a variable of the watched type declared in another file (the parser
\* resolved no object for it), Blank is the blank identifier on the left of
\* a plain assignment (no object), BlankDecl the blank identifier of a short
\* variable declaration (an object of its own), n an integer,
\* use a function of the unit, Handler(d) and Param(f, d) the literal
\* function at nesting depth d and its parameter.
VarX2(f) == Ident(<<"x", "2">>, 9, f.T)
VarG(f) == Ident(<<"g">>, 0, f.T)
Blank == Ident(<<"_">>, 0, NilType)
BlankDecl == Ident(<<"_">>, 24, NilType)
VarN == Ident(<<"n">>, 20, IntType)
VarUse == Ident(<<"u", "s", "e">>, 22, NilType)
Handler(d) == Ident(<<"h">>, 40 + d, NilType)
Param(f, d) == Ident(<<"p">>, 30 + d, f.T)

RECURSIVE LitBody(_, _)
\* The body of the literal function at depth d: the expected call on its
\* parameter at depth 1; deeper, a literal function of depth d - 1 assigned
\* to an identifier and invoked on the parameter.
LitBody(f, d) ==
    IF d = 1 THEN <<StmtCall(f, Param(f, 1))>>
    ELSE <<AssignStmt(<<Handler(d - 1)>>,
                      <<FuncLit(<<Field(f.T, <<Param(f, d - 1)>>)>>, LitBody(f, d - 1))>>),
           ExprStmt(CallExpr(Handler(d - 1), <<Param(f, d)>>, <<>>))>>

\* x1 := x; h := func(p T) { ... }; h(x1) with literals nested to depth d.
NestedStmts(f, d) ==
    <<StmtAlias(f, 1),
      AssignStmt(<<Handler(d)>>,
                 <<FuncLit(<<Field(f.T, <<Param(f, d)>>)>>, LitBody(f, d))>>),
      ExprStmt(CallExpr(Handler(d), <<Alias(f, 1)>>, <<>>))>>

(***************************************************************************)
(* The tracker on its own: visit(pass, log, rule, ident, stmts) for the    *)
(* identifier x of a family and a statement list built around an           *)
(* assignment chain or around a literal function assigned to h.            *)
(***************************************************************************)
\* x1 := x, ..., xk := x(k-1) in that order, or in the opposite order.
ChainStmts(f, k, order) ==
    [i \in 1..k |-> StmtAlias(f, IF order = "forward" THEN i ELSE k + 1 - i)]

\* The chain with an unrelated statement in front of it or after its
\* first assignment.
WithNoise(f, chain, noise) ==
    CASE noise = "none" -> chain
      [] noise = "front" -> <<StmtLoop(f)>> \o chain
      [] noise = "middle" ->
            <<Head(chain), StmtCall(f, VarO(f))>> \o Tail(chain)

\* The expected call on v: a statement of the list, or nested in the body
\* of a conditional or of a deferred literal function.
FinalCall(f, v, wrap) ==
    CASE wrap = "plain" -> StmtCall(f, v)
      [] wrap = "if" -> StmtIfCall(f, v)
      [] wrap = "defer" -> StmtDeferLit(f, v)

\* h(v), defer h(v), go h(v), or nothing.
Invocation(f, v, form) ==
    CASE form = "call" -> <<StmtInvoke(f, v)>>
      [] form = "defer" -> <<StmtDeferInvoke(f, v)>>
      [] form = "go" -> <<StmtGoInvoke(f, v)>>
      [] form = "none" -> <<>>

\* The statement list around an assignment chain of length k with the
\* expected call on the alias numbered m.
ChainInput(f, k, m, order, noise, wrap) ==
    [fam |-> f, kind |-> "chain", k |-> k, m |-> m, order |-> order,
     noise |-> noise, wrap |-> wrap, form |-> "none", first |-> TRUE,
     body |-> "expected",
     stmts |-> WithNoise(f, ChainStmts(f, k, order), noise)
                   \o <<FinalCall(f, Alias(f, m), wrap)>>]

\* The statement list around a literal function assigned to h, invoked on
\* the alias numbered k before or after the assignment.
HandlerInput(f, k, form, first, body) ==
    [fam |-> f, kind |-> "handler", k |-> k, m |-> k, order |-> "forward",
     noise |-> "none", wrap |-> "plain", form |-> form, first |-> first,
     body |-> body,
     stmts |-> ChainStmts(f, k, "forward")
                   \o (IF first
                       THEN <<StmtHandler(f, body)>> \o Invocation(f, Alias(f, k), form)
                       ELSE Invocation(f, Alias(f, k), form) \o <<StmtHandler(f, body)>>)]

\* A statement list of another kind, numbered n and of the variant v.
TrackInput(f, kind, n, v, stmts) ==
    [fam |-> f, kind |-> kind, k |-> n, m |-> 0, order |-> "forward",
     noise |-> "none", wrap |-> "plain", form |-> v, first |-> TRUE,
     body |-> "expected", stmts |-> stmts]

\* x1 := x; h := func(p T) { ... }; h(o): the literal is called on a
\* variable of the watched type that is no alias of x, and for k = 1 a
\* loop calling another method of x follows.
LiteralInput(f, k, body) ==
    [TrackInput(f, "literal", k, "other",
         <<StmtAlias(f, 1), StmtHandler(f, body), StmtInvoke(f, VarO(f))>>
             \o (IF k = 1 THEN <<StmtLoop(f)>> ELSE <<>>))
     EXCEPT !.body = body]

\* x1 := x; a = o; a.Err() with a the alias numbered k (x itself for 0)
\* and o a variable of the watched type that is no alias, or a literal.
ReboundInput(f, k, v) ==
    TrackInput(f, "rebound", k, v,
        <<StmtAlias(f, 1),
          AssignStmt(<<Alias(f, k)>>, <<IF v = "variable" THEN VarO(f) ELSE BasicLit>>),
          StmtCall(f, Alias(f, k))>>)

\* The second parameter of a literal function.
VarQ(f) == Ident(<<"q">>, 21, f.T)

\* The parameter list of a literal function by layout: func(p T),
\* func(p, q T), func(p T, q T), func(n int, p T).
ParamFields(f, layout) ==
    CASE layout = "single" -> <<Field(f.T, <<VarP(f)>>)>>
      [] layout = "shared" -> <<Field(f.T, <<VarP(f), VarQ(f)>>)>>
      [] layout = "separate" -> <<Field(f.T, <<VarP(f)>>), Field(f.T, <<VarQ(f)>>)>>
      [] layout = "after-int" -> <<Field(IntType, <<VarN>>), Field(f.T, <<VarP(f)>>)>>

\* The position of the parameter named target in the whole list.
ParamPos(layout, target) ==
    IF layout = "after-int" \/ target = "q" THEN 1 ELSE 0

\* The arguments of a call of the literal: x at position a, and at the
\* other position, if there is one, a literal or the variable o.
ParamArgs(f, layout, a) ==
    CASE layout = "single" -> <<VarX(f)>>
      [] layout = "after-int" -> <<BasicLit, VarX(f)>>
      [] OTHER -> IF a = 0 THEN <<VarX(f), VarO(f)>> ELSE <<VarO(f), VarX(f)>>

\* h := func(...) { target.Err() }; h(..., x, ...) with x at position a.
ParamsInput(f, layout, target, a) ==
    [TrackInput(f, "params", a, layout,
         <<AssignStmt(<<VarH>>,
                      <<FuncLit(ParamFields(f, layout),
                                <<StmtCall(f, IF target = "p" THEN VarP(f) ELSE VarQ(f))>>)>>),
           ExprStmt(CallExpr(VarH, ParamArgs(f, layout, a), <<>>))>>)
     EXCEPT !.body = target]

\* The layouts with the parameters that can receive the expected call and
\* the positions x can be passed at.
ParamCases ==
    {<<"single", "p", 0>>, <<"after-int", "p", 1>>}
        \cup ({"shared", "separate"} \X {"p", "q"} \X {0, 1})

\* The family of the rule of a user's configuration file, whose expected
\* call takes two arguments.
FamScan == [rule |-> RuleCustom, T |-> RowsType, sig |-> <<RowsType, ErrorType>>,
            path |-> <<<<"S", "c", "a", "n">>>>, pkg |-> PkgSql, otherPkg |-> PkgHttp]

\* e, a variable of an interface type that the watched value is assigned to.
VarE == Ident(<<"e">>, 23, Named(FALSE, <<>>, <<"e", "r", "r", "e", "r">>))

\* The receiver of a call by name: the tracked identifier, its alias, a
\* variable of the watched type that is no alias, the alias of other type.
Receiver(f, recv) ==
    CASE recv = "x" -> VarX(f)
      [] recv = "alias" -> Alias(f, 1)
      [] recv = "o" -> VarO(f)
      [] recv = "typed" -> VarE

\* The selector paths called: the expected one, another method, the
\* expected one with a further selector, and the expected one cut short.
Paths(f) ==
    {f.path, <<<<"C", "l", "o", "s", "e">>>>, f.path \o <<<<"N", "e", "x", "t">>>>}
        \cup (IF Len(f.path) > 0 THEN {SubSeq(f.path, 1, Len(f.path) - 1)} ELSE {})

\* x1 := x; e = x; recv.path(args) with n arguments.
CallInput(f, recv, path, n) ==
    [TrackInput(f, "call", n, recv,
         <<StmtAlias(f, 1), AssignStmt(<<VarE>>, <<VarX(f)>>),
           ExprStmt(CallExpr(SelPath(Receiver(f, recv), path),
                             [i \in 1..n |-> BasicLit], <<<<ErrorType>>>>))>>)
     EXCEPT !.body = path]

\* The rule of a family as Config.validate leaves it in the active map.
Validated(f) ==
    IF f = FamScan THEN ConfigValidate(CustomConfig).cfg.active[f.rule.Name]
    ELSE ConfigValidate(DefaultConfig).cfg.active[f.rule.Name]

InitVisit ==
    /\ \/ \E f \in Fams, k \in 1..MaxChain, m \in 0..MaxChain,
             order \in {"forward", "reverse"},
             noise \in {"none", "front", "middle"},
             wrap \in {"plain", "if", "defer"} :
               unit = ChainInput(f, k, m, order, noise, wrap)
       \/ \E f \in Fams, k \in 0..MaxChain,
             form \in {"call", "defer", "go", "none"},
             first \in BOOLEAN, body \in {"expected", "other"} :
               unit = HandlerInput(f, k, form, first, body)
       \/ \E f \in Fams, d \in 1..MaxDepth :
               unit = TrackInput(f, "nested", d, "call", NestedStmts(f, d))
       \/ \E f \in Fams, c \in ParamCases :
               unit = ParamsInput(f, c[1], c[2], c[3])
       \/ \E f \in Fams, k \in 0..1, body \in {"expected", "other"} :
               unit = LiteralInput(f, k, body)
       \/ \E f \in Fams, k \in 0..1, v \in {"variable", "literal"} :
               unit = ReboundInput(f, k, v)
       \/ \E f \in Fams \cup {FamScan}, recv \in {"x", "alias", "o", "typed"},
             n \in 0..2 :
               \E path \in Paths(f) : unit = CallInput(f, recv, path, n)
    /\ rule = <<Validated(unit.fam)>>
    /\ arg = NewVisitor(VarX(unit.fam))
    /\ pos = 1
    /\ pc = "walk"
    /\ ret = FALSE
    /\ cfg = <<>>
    /\ other = <<>>
    /\ err = NoError
    /\ diags = EmptyMap

\* One pass of the loop of visit: ec.walk(s) for the next statement,
\* returning true once the visitor has found the call.
WalkStmt ==
    /\ pc = "walk"
    /\ pos <= Len(unit.stmts)
    /\ arg' = Walk(arg, rule[1], unit.stmts[pos])
    /\ IF arg'.found
       THEN pc' = "returned" /\ ret' = TRUE /\ pos' = pos
       ELSE pc' = "walk" /\ ret' = ret /\ pos' = pos + 1
    /\ UNCHANGED <<rule, cfg, other, err, unit, diags>>

\* The loop of visit ran out of statements: return false.
ReturnFalse ==
    /\ pc = "walk"
    /\ pos > Len(unit.stmts)
    /\ pc' = "returned"
    /\ ret' = FALSE
    /\ UNCHANGED <<rule, cfg, other, err, arg, unit, pos, diags>>

NextVisit == WalkStmt \/ ReturnFalse

SpecVisit == InitVisit /\ [][NextVisit]_vars


(***************************************************************************)
(* Properties of the tracker.                                              *)
(***************************************************************************)
\* C4: with the assignments x1 := x, x2 := x1, ..., xk := x(k-1) in the
\* statement list in that order, whatever unrelated statement stands between
\* them, followed by the expected call on xk, visit returns true for the
\* obligation tracked from x, for every chain length k from 1 to MaxChain.
C4_AliasChainSatisfied ==
    (/\ pc = "returned"
     /\ unit.kind = "chain"
     /\ unit.order = "forward"
     /\ unit.m = unit.k)
        => ret = TRUE

\* A chain of the greatest length with a statement in between, whose last
\* alias received the expected call in a nested body.
C4_Witness ==
    /\ pc = "returned"
    /\ unit.kind = "chain"
    /\ unit.order = "forward"
    /\ unit.k = MaxChain
    /\ unit.m = unit.k
    /\ unit.noise = "middle"
    /\ unit.wrap = "if"
    /\ Cardinality(arg.identObjs) = MaxChain + 1
    /\ ret = TRUE

\* C5: for every rule, a literal function assigned to h whose body makes
\* the expected call on its first parameter and which is later invoked as
\* h(a), defer h(a) or go h(a), a being the tracked identifier or one of
\* its aliases, makes visit return true.
C5_HandlerInvocationSatisfies ==
    (/\ pc = "returned"
     /\ unit.kind = "handler"
     /\ unit.body = "expected"
     /\ unit.first
     /\ unit.form # "none")
        => ret = TRUE


\* C22: for a literal function bound to h and invoked with the tracked
\* identifier as the argument at position a, visit returns true exactly
\* when the body makes the expected call on the parameter at position a of
\* the whole parameter list, for every layout of the parameter list (for
\* the rules whose expected types hold the watched type).
C22_TableHoldsListPosition ==
    (/\ pc = "returned"
     /\ unit.kind = "params"
     /\ containsType(unit.fam.T, rule[1].expectedTypes))
        => ret = (ParamPos(unit.form, unit.body) = unit.k)


\* C24: a call recv.path(args) after x1 := x and e = x makes visit return
\* true exactly when the receiver is the tracked identifier or its alias of
\* the watched type, the path is the expected call of the rule and there
\* are as many arguments as the rule configures: another method, a longer
\* or shorter path, another argument count, a receiver that is no alias
\* and an alias of another type never do.
C24_OnlyExpectedCallDischarges ==
    (pc = "returned" /\ unit.kind = "call") =>
        ret = (/\ unit.form \in {"x", "alias"}
               /\ unit.body = unit.fam.path
               /\ unit.k = Len(unit.fam.rule.Results[rule[1].expects].Expect[1].Args))

\* The tracker returned false for x.Close() under the rule expecting Err,
\* x being tracked.
C24_Witness ==
    /\ pc = "returned"
    /\ unit.kind = "call"
    /\ unit.fam = FamSql
    /\ unit.form = "x"
    /\ unit.body = <<<<"C", "l", "o", "s", "e">>>>
    /\ unit.k = 0
    /\ VarX(FamSql).obj \in arg.identObjs
    /\ ret = FALSE


\* The objects of the parameters of the literal functions of the inputs.
ParamObjs ==
    {VarP(unit.fam).obj, VarQ(unit.fam).obj}
        \cup {Param(unit.fam, d).obj : d \in 1..MaxDepth}

\* C27: a statement list that assigns to h a literal function calling the
\* expected method on its parameter, and then does not call h or calls it
\* on a variable that is no alias, is answered with false, and at no
\* point of any walk is a parameter of a literal in the alias set.
C27_LiteralAloneDoesNotDischarge ==
    /\ (/\ pc = "returned"
        /\ \/ unit.kind = "handler" /\ unit.form = "none"
           \/ unit.kind = "literal")
           => ret = FALSE
    /\ unit.kind \in {"handler", "literal", "params", "nested"}
           => arg.identObjs \cap ParamObjs = {}

\* The walk over x1 := x; h := func(p T) { p.Err() }; h(o) has returned
\* false with position 0 of h in the table.
C27_Witness ==
    /\ pc = "returned"
    /\ unit.kind = "literal"
    /\ unit.body = "expected"
    /\ unit.fam = FamSql
    /\ arg.calledArgs = {<<VarH.obj, 0>>}
    /\ arg.identObjs = {VarX(FamSql).obj, Alias(FamSql, 1).obj}
    /\ ret = FALSE

\* C30: in every step of a walk the alias set keeps what it held, it
\* holds the object of x from the start on, and a walk over x1 := x;
\* a = o; a.Err(), where the alias a is assigned an unrelated value before
\* the expected call on it, returns true.
C30_AliasSetOnlyGrows ==
    /\ [][arg.identObjs \subseteq arg'.identObjs]_vars
    /\ [](VarX(unit.fam).obj \in arg.identObjs)
    /\ []((unit.kind = "rebound" /\ pc = "returned") => ret = TRUE)

\* The walk over x1 := x; x1 = o; x1.Err() has returned true with x and
\* x1 in the alias set.
C30_Witness ==
    /\ pc = "returned"
    /\ unit.kind = "rebound"
    /\ unit.k = 1
    /\ unit.form = "variable"
    /\ unit.fam = FamSql
    /\ pos = 3
    /\ arg.identObjs = {VarX(FamSql).obj, Alias(FamSql, 1).obj}
    /\ ret = TRUE

(***************************************************************************)
(* A rule on its own: Rule.validate for a rule as the decoder leaves it,   *)
(* then Rule.matchesResults and the matcher of one result for the result   *)
(* types of a call.                                                        *)
(***************************************************************************)
NamePool ==
    {<<"r", "-", "1">>, <<"s", "q", "l">>, <<"R", "1">>, <<"r", "_", "1">>, <<>>}

PackagesPool == {<<>>, <<PkgSql>>, <<PkgSql, PkgSqlx>>}

ResultPool ==
    {NewResult(<<".", "R", "o", "w", "s">>, TRUE, Expect(CallErr, <<>>)),
     NewResult(<<".", "R", "o", "w", "s">>, TRUE, <<>>),
     NewResult(<<"e", "r", "r", "o", "r">>, FALSE, <<>>),
     NewResult(anyType, FALSE, <<>>),
     NewResult(anyType, FALSE, Expect(CallErr, <<>>))}

\* The types of the results of a call; NilType is a result without a type.
TypePool ==
    {RowsType, Named(FALSE, PkgSql, <<"R", "o", "w", "s">>),
     Named(TRUE, PkgSqlx, <<"R", "o", "w", "s">>), ErrorType, IntType, NilType}

\* A rule built from the pools, or a rule of the embedded configuration.
InitRule ==
    /\ \/ \E n \in NamePool, p \in PackagesPool, rs \in SeqsUpTo(ResultPool, MaxResults) :
             rule = NewRule(n, <<"c">>, p, rs)
       \/ rule \in {RuleSql, RuleHttp, RuleCtx}
    /\ pc = "decoded"
    /\ err = NoError
    /\ arg = <<>>
    /\ ret = FALSE
    /\ pos = 0
    /\ cfg = <<>>
    /\ other = <<>>
    /\ unit = <<>>
    /\ diags = EmptyMap

\* r.validate()
ValidateRule ==
    /\ pc = "decoded"
    /\ LET v == RuleValidate(rule)
       IN  /\ rule' = v.rule
           /\ err' = v.err
           /\ pc' = IF v.err = NoError THEN "valid" ELSE "rejected"
    /\ UNCHANGED <<cfg, other, arg, ret, unit, pos, diags>>

\* rule.matchesResults(sig.Results()) for the results of some call.
MatchResults ==
    /\ pc = "valid"
    /\ \E res \in SeqsUpTo(TypePool, MaxResults) :
          /\ arg' = res
          /\ ret' = matchesResults(rule, res)
    /\ pc' = "matched"
    /\ UNCHANGED <<rule, cfg, other, err, unit, pos, diags>>

\* r.match(t) for the result at some position i and some type t.
MatchType ==
    /\ pc = "valid"
    /\ \E i \in 1..Len(rule.Results), t \in TypePool :
          /\ pos' = i
          /\ arg' = <<t>>
          /\ ret' = ResultMatch(rule.Results[i], t)
    /\ pc' = "type"
    /\ UNCHANGED <<rule, cfg, other, err, unit, diags>>

NextRule == ValidateRule \/ MatchResults \/ MatchType

SpecRule == InitRule /\ [][NextRule]_vars


(***************************************************************************)
(* Properties of a rule.                                                   *)
(***************************************************************************)
\* The positions of the results of rl that carry an Expect.
Expecting(rl) == {i \in 1..Len(rl.Results) : rl.Results[i].Expect # <<>>}

\* The six ways a rule can be wrong.
Malformed(rl) ==
    \/ rl.Name = EmptyStr
    \/ \E i \in 1..Len(rl.Name) : rl.Name[i] \notin NameChars
    \/ Len(rl.Packages) = 0
    \/ Len(rl.Results) = 0
    \/ Cardinality(Expecting(rl)) = 0
    \/ Cardinality(Expecting(rl)) >= 2
    \/ \E i \in Expecting(rl) : rl.Results[i].Type = anyType

\* C7: Rule.validate returns an error exactly for the rules whose name does
\* not match ^[a-z0-9-]+$, whose package list or result list is empty, that
\* have no or more than one result carrying an Expect, or whose result
\* carrying the Expect is the wildcard; for every other rule it returns nil
\* and leaves exactly one result recorded as the expected one, holding its
\* position as index.
C7_ValidateRejectsExactlyMalformed ==
    /\ pc = "rejected" => (err # NoError /\ Malformed(rule))
    /\ pc = "valid" =>
          /\ err = NoError
          /\ ~Malformed(rule)
          /\ Expecting(rule) = {rule.expects}
          /\ rule.Results[rule.expects].idx = rule.expects - 1

\* A rule rejected because its only expectation sits on a wildcard.
C7_Witness ==
    /\ pc = "rejected"
    /\ err = "expected-and-wildcard"
    /\ Cardinality(Expecting(rule)) = 1
    /\ Len(rule.Results) = MaxResults

\* C9: Rule.matchesResults is true exactly when there are as many result
\* types as configured results and at every position the matcher of the
\* configured result accepts the type at that position; types that match
\* in another order do not match.
C9_MatchesResultsPositional ==
    pc = "matched" =>
        ret = (/\ Len(arg) = Len(rule.Results)
               /\ \A i \in 1..Len(arg) : ResultMatch(rule.Results[i], arg[i]))

\* Two result types that match the two configured results crosswise only.
C9_Witness ==
    /\ pc = "matched"
    /\ Len(rule.Results) = 2
    /\ Len(arg) = 2
    /\ ResultMatch(rule.Results[1], arg[2])
    /\ ResultMatch(rule.Results[2], arg[1])
    /\ ~ResultMatch(rule.Results[1], arg[1])
    /\ ret = FALSE

\* The names a result stands for: for each package of the rule the pointer
\* marker, the package and the type when the type starts with a dot, the
\* pointer marker and the type otherwise.
NameSet(r, packages) ==
    {(IF r.Pointer THEN <<Star>> ELSE <<>>)
        \o (IF HasDotPrefix(r.Type) THEN packages[k] \o r.Type ELSE r.Type) :
            k \in 1..Len(packages)}

\* C10 as stated: the matcher of a wildcard result returns true whatever
\* the type, that of any other result returns true exactly when the
\* canonical string of the type is in the name set of the result.
C10_MatcherAsStated ==
    pc = "type" =>
        LET r == rule.Results[pos]
            t == arg[1]
        IN  IF r.Type = anyType THEN ret = TRUE
            ELSE ret = (t # NilType /\ TypeString(t) \in NameSet(r, rule.Packages))

\* C10: the matcher returns false for a nil type, also that of a wildcard
\* result; for any other type the matcher of a wildcard result returns
\* true and that of any other result returns true exactly when the
\* canonical string of the type is in the name set of the result.
C10_MatcherOfNonNilType ==
    pc = "type" =>
        LET r == rule.Results[pos]
            t == arg[1]
        IN  ret = (/\ t # NilType
                   /\ \/ r.Type = anyType
                      \/ TypeString(t) \in NameSet(r, rule.Packages))

\* The matcher of a wildcard result asked about a nil type.
C10_Witness ==
    /\ pc = "type"
    /\ rule.Results[pos].Type = anyType
    /\ arg[1] = NilType
    /\ ret = FALSE


\* C23: after Rule.validate has succeeded, expectedTypes is the name set
\* of the result carrying the Expect, which is what its matcher accepts,
\* and expectedCalls is each of these names followed by the expected call,
\* whether the expected call is a method, a nested selector or empty.
C23_ExpectedTypesAreOwnerTypes ==
    pc = "valid" =>
        /\ rule.expectedTypes = NameSet(rule.Results[rule.expects], rule.Packages)
        /\ rule.expectedTypes = rule.Results[rule.expects].match[1]
        /\ rule.expectedCalls =
              {n \o rule.Results[rule.expects].Expect[1].Call :
                  n \in NameSet(rule.Results[rule.expects], rule.Packages)}


(***************************************************************************)
(* A configuration on its own: a decoded configuration is loaded, copied   *)
(* as loader.run copies it, and has another configuration merged into it   *)
(* as ConfigOpt does.                                                      *)
(***************************************************************************)
\* A rule without any expectation, and a rule named like RuleSql with two.
RuleNoExpect ==
    NewRule(<<"b", "a", "d", "-", "1">>, <<"b">>, <<PkgSql>>,
            <<NewResult(<<".", "R", "o", "w", "s">>, TRUE, <<>>)>>)

RuleTwoExpects ==
    NewRule(RuleSql.Name, <<"s", "q", "l">>, <<PkgSql>>,
            <<NewResult(<<".", "R", "o", "w", "s">>, TRUE, Expect(CallErr, <<>>)),
              NewResult(<<".", "R", "o", "w", "s">>, TRUE, Expect(CallClose, <<>>))>>)

ConfigRulePool == {RuleSql, RuleHttp, RuleNoExpect, RuleTwoExpects}

DisabledPool == {<<>>, <<RuleNoExpect.Name>>, <<RuleSql.Name>>}

EnabledPool == {<<>>, <<RuleSql.Name>>}

\* RuleSql under another category.  Pairs of rules to merge: one that
\* replaces and one that is new, two of one name, and two new ones.
RuleSqlOther == [RuleSql EXCEPT !.Category = <<"d", "b">>]

MergedPairs ==
    {<<RuleSqlOther, RuleCtx>>, <<RuleTwoExpects, RuleCtx>>,
     <<RuleSqlClose, RuleSql>>, <<RuleCtx, RuleCtx>>, <<RuleCtx, RuleSqlClose>>}

InitCfg ==
    /\ \E da \in BOOLEAN, dis \in DisabledPool, en \in EnabledPool,
          rs \in SeqsUpTo(ConfigRulePool, MaxRules) :
            cfg = NewConfig(da, dis, en, rs)
    \* The configuration handed to merge: nil, or one with at most one rule
    \* of the pool, or one of two rules.
    /\ \/ other = <<>>
       \/ \E da \in BOOLEAN, dis \in {<<>>, <<RuleNoExpect.Name>>},
             rs \in SeqsUpTo(ConfigRulePool, 1) \cup MergedPairs :
               other = <<NewConfig(da, dis, <<>>, rs)>>
    /\ pc = "decoded"
    /\ err = NoError
    /\ rule = <<>>
    /\ arg = <<>>
    /\ ret = FALSE
    /\ unit = <<>>
    /\ pos = 0
    /\ diags = EmptyMap

\* The receiver and the error an operation on the configuration leaves,
\* v being what it returned as [err, cfg]; at is the position the program
\* reaches when the error is nil.
Returned(v, at) ==
    /\ cfg' = v.cfg
    /\ err' = v.err
    /\ pc' = IF v.err = NoError THEN at ELSE "failed"

\* c.load(r) once the decoder has filled c: c.validate().
Load ==
    /\ pc = "decoded"
    /\ Returned(ConfigValidate(cfg), "loaded")
    /\ UNCHANGED <<rule, other, arg, ret, unit, pos, diags>>

\* l.cfg.copy() in loader.run
Copy ==
    /\ pc = "loaded"
    /\ Returned(ConfigCopy(cfg), "copied")
    /\ UNCHANGED <<rule, other, arg, ret, unit, pos, diags>>

\* a.cfg.merge(cfg) of ConfigOpt
Merge ==
    /\ pc \in {"loaded", "copied"}
    /\ Returned(ConfigMerge(cfg, other), "merged")
    /\ UNCHANGED <<rule, other, arg, ret, unit, pos, diags>>

NextCfg == Load \/ Copy \/ Merge

SpecCfg == InitCfg /\ [][NextCfg]_vars

(***************************************************************************)
(* Properties of a configuration.                                          *)
(***************************************************************************)
\* C8: once load, copy or merge has run, a configuration holding a rule
\* that fails validation has been rejected: the operation returned an error,
\* also when the rule is named in Disabled and DisableAll is set.
C8_MalformedRuleRejectsConfig ==
    (/\ pc # "decoded"
     /\ \E i \in 1..Len(cfg.Rules) : Malformed(cfg.Rules[i]))
        => (pc = "failed" /\ err # NoError)

\* A rejected configuration with DisableAll set whose failing rule is named
\* in Disabled.
C8_Witness ==
    /\ pc = "failed"
    /\ err = "no-expects"
    /\ cfg.DisableAll
    /\ \E i \in 1..Len(cfg.Rules) :
          /\ Malformed(cfg.Rules[i])
          /\ \E j \in 1..Len(cfg.Disabled) : cfg.Disabled[j] = cfg.Rules[i].Name


(***************************************************************************)
(* Properties of the analysis of a unit.  The producing call is the first  *)
(* call expression of every unit.                                          *)
(***************************************************************************)
\* The diagnostics reported for the producing call.
AtProducer == {d \in DOMAIN diags : d.site = 1}

\* The active rules whose results match the results of the producing call.
Matching ==
    {n \in DOMAIN cfg.active :
        matchesResults(cfg.active[n], Sites(unit)[1].call.sig[1])}

\* The suffix holds the expected call of the family on x, as a statement or
\* in a deferred literal function, or on the alias after x was assigned to
\* the alias.
Satisfied(f, suf) ==
    \E j \in 1..Len(suf) :
        \/ suf[j] = StmtCall(f, VarX(f))
        \/ suf[j] = StmtDeferLit(f, VarX(f))
        \/ /\ suf[j] = StmtCall(f, Alias(f, 1))
           /\ \E i \in 1..(j - 1) : suf[i] = StmtAlias(f, 1)

\* C1: when the result of the producing call is bound to x and the suffix
\* holds the expected call on x or on its alias, no diagnostic is reported
\* for the producing call, whichever rules are active in the unit.
C1_NoDiagnosticWhenCalled ==
    (/\ pc = "done"
     /\ unit.kind = "assign"
     /\ unit.cfg = DefaultConfig
     /\ unit.fam.pkg \in unit.imports
     /\ Satisfied(unit.fam, Tail(unit.body)))
        => AtProducer = {}

C3_OnlyMatchingRulesReportOnce ==
    pc = "done" =>
        \A d \in DOMAIN diags :
            /\ matchesResults(cfg.active[d.rule], Sites(unit)[d.site].call.sig[1])
            /\ diags[d] = 1

\* C6: a producing call that a rule matches and whose result is not bound
\* to an identifier (an expression statement, the initialiser of a
\* conditional, an assignment to an index expression) gets a diagnostic.
C6_UnboundResultReported ==
    (/\ pc = "done"
     /\ unit.kind \in {"expr", "index", "if"}
     /\ unit.fam.pkg \in unit.imports)
        => AtProducer # {}

\* One of the packages in the list is imported.
HasImported(pkgs, imports) == \E k \in 1..Len(pkgs) : pkgs[k] \in imports

\* C11: buildConfig leaves active exactly the rules that were active and
\* name an imported package, and returns false (the run ends without
\* inspecting the unit) exactly when none is left; at every step all
\* diagnostics reported so far come from rules of the configuration that
\* name an imported package.
C11_ActivationKeepsImportedRules ==
    [][/\ BuildConfig =>
            /\ DOMAIN cfg'.active =
                  {n \in DOMAIN cfg.active :
                      HasImported(cfg.active[n].Packages, unit.imports)}
            /\ (pc' = "done") <=> (DOMAIN cfg'.active = {})
       /\ \A d \in DOMAIN diags' :
            \E i \in 1..Len(unit.cfg.Rules) :
                /\ unit.cfg.Rules[i].Name = d.rule
                /\ HasImported(unit.cfg.Rules[i].Packages, unit.imports)]_vars

\* A unit that imports the package of another rule only: the rule of the
\* producing call was deactivated, the call was inspected and nothing was
\* reported although its result is bound in the last statement.
C11_Witness ==
    /\ pc = "done"
    /\ unit.kind = "assign"
    /\ Len(unit.body) = 1
    /\ unit.imports = {unit.fam.otherPkg}
    /\ DOMAIN cfg.active # {}
    /\ unit.fam.rule.Name \notin DOMAIN cfg.active
    /\ pos > 1
    /\ diags = EmptyMap

\* The rule named n as the configuration of the unit holds it.
Configured(n) ==
    LET i == CHOOSE j \in 1..Len(unit.cfg.Rules) : unit.cfg.Rules[j].Name = n
    IN  unit.cfg.Rules[i]

\* The rule named n validated with its packages narrowed to the imports.
Rebuilt(n) ==
    RuleValidate([Configured(n) EXCEPT
                     !.Packages = NarrowFrom(@, unit.imports, 1, <<>>)]).rule

\* C12: once buildConfig has run, the expected calls, the expected types
\* and the matchers of every active rule are those built from the packages
\* of the rule that the unit imports, and a producing call whose result
\* type belongs to a package of the rule that the unit does not import gets
\* no diagnostic.
C12_ActivationRebuildsCompiledState ==
    pc \in {"visit", "done"} =>
        /\ \A n \in DOMAIN cfg.active :
              /\ cfg.active[n].expectedCalls = Rebuilt(n).expectedCalls
              /\ cfg.active[n].expectedTypes = Rebuilt(n).expectedTypes
              /\ \A i \in 1..Len(cfg.active[n].Results) :
                    cfg.active[n].Results[i].match = Rebuilt(n).Results[i].match
        /\ (pc = "done" /\ unit.fam = FamSqlx) => AtProducer = {}


\* C14: a call expression no block encloses (restOfBlock returns nil) does
\* not make the analysis fail: after analyzer.visit has handled it the
\* inspection goes on or has ended normally.
C14_NoFaultWithoutBlock ==
    (/\ pc # "run"
     /\ pos > 1
     /\ Sites(unit)[pos - 1].stmts = <<>>)
        => pc # "panic"

\* C15: a producing call that an active rule matches and whose result is
\* bound to x in the last statement of its block gets a diagnostic whatever
\* the form of its callee: a selector, a bare identifier or an explicitly
\* instantiated generic function.
C15_EveryCalleeFormChecked ==
    (/\ pc = "done"
     /\ unit.kind \in {"assign", "ident", "generic"}
     /\ Len(unit.body) = 1
     /\ unit.fam.pkg \in unit.imports)
        => AtProducer # {}

\* The number of dots a string starts with, and the string without them.
LeadingDots(s) == Cardinality({i \in 1..Len(s) : \A j \in 1..i : s[j] = Dot})
BareType(s) == SubSeq(s, LeadingDots(s) + 1, Len(s))

RECURSIVE CommaList(_)
\* The strings of a list with a comma between neighbours.
CommaList(a) ==
    IF Len(a) = 0 THEN <<>>
    ELSE IF Len(a) = 1 THEN a[1]
    ELSE CommaList(SubSeq(a, 1, Len(a) - 1)) \o <<",">> \o a[Len(a)]

\* What the diagnostic d should be when bound tells whether the result of
\* its call counts as bound to x: the message is the name, the expected
\* call of the reporting rule, its arguments in parentheses and " must be
\* called", the name being x when bound and else the type of the expected
\* result without its leading dots; the range is x when bound and else the
\* call.
WellFormed(d, bound) ==
    LET rl == cfg.active[d.rule]
        e == rl.Results[rl.expects]
    IN  /\ d.message =
              (IF bound THEN VarX(unit.fam).name ELSE BareType(e.Type))
                  \o e.Expect[1].Call \o <<"(">> \o CommaList(e.Expect[1].Args)
                  \o <<")">> \o <<" must be called">>
        /\ d.at = IF bound THEN "ident" ELSE "call"
        /\ d.node = IF bound THEN VarX(unit.fam) ELSE Sites(unit)[d.site].call

\* C16 as stated: every diagnostic is well formed, the result counting as
\* bound whenever the producing call is the right-hand side of an
\* assignment to x, that in the initialiser of a conditional included.
C16_MessageAsStated ==
    \A d \in DOMAIN diags : WellFormed(d, unit.kind \in {"assign", "if"})

\* C16: every diagnostic is well formed, the result counting as bound when
\* the statement of the innermost block that holds the producing call is
\* itself the assignment to x; an assignment nested in another statement
\* (the initialiser of a conditional) is reported like an unbound result,
\* with the type name and at the call.
C16_MessageOfReport ==
    \A d \in DOMAIN diags : WellFormed(d, unit.kind = "assign")

\* The rule of the user's file reported for x: x.Scan(a,b) must be called.
C16_Witness ==
    /\ pc = "done"
    /\ \E d \in DOMAIN diags :
          /\ d.rule = RuleCustom.Name
          /\ d.at = "ident"
          /\ d.message = <<"x", ".", "S", "c", "a", "n", "(", "a", ",", "b", ")",
                           " must be called">>

\* default-category of the configuration file format: uncalled.
DefaultCategory == <<"u", "n", "c", "a", "l", "l", "e", "d">>

\* C17: the category of every diagnostic is the category of the reporting
\* rule when that is not empty, and the default category otherwise.
C17_CategoryFallsBack ==
    \A d \in DOMAIN diags :
        d.category = IF cfg.active[d.rule].Category # EmptyStr
                     THEN cfg.active[d.rule].Category
                     ELSE DefaultCategory

\* The names a sequence of rule names, or of rules, holds.
NamesIn(s) == {s[i] : i \in DOMAIN s}

RuleNames(s) == {s[i].Name : i \in DOMAIN s}

\* C19: once validate has succeeded (in load, copy or merge), the active
\* rules are all the configured rules, or none with DisableAll, less those
\* named in Disabled, plus those named in Enabled; every active rule is a
\* configured rule; and validate has not succeeded when Disabled or
\* Enabled names an unknown rule or when a name is in both.
C19_ActiveAfterValidate ==
    pc \in {"loaded", "copied", "merged"} =>
        /\ DOMAIN cfg.active =
              ((IF cfg.DisableAll THEN {} ELSE RuleNames(cfg.Rules))
                  \ NamesIn(cfg.Disabled)) \cup NamesIn(cfg.Enabled)
        /\ DOMAIN cfg.active \subseteq RuleNames(cfg.Rules)
        /\ \A n \in DOMAIN cfg.active :
              /\ n \in DOMAIN cfg.rules
              /\ cfg.active[n] = cfg.rules[n]
              /\ cfg.Rules[cfg.active[n].idx + 1].Name = n
        /\ NamesIn(cfg.Disabled) \subseteq RuleNames(cfg.Rules)
        /\ NamesIn(cfg.Enabled) \subseteq RuleNames(cfg.Rules)
        /\ NamesIn(cfg.Disabled) \cap NamesIn(cfg.Enabled) = {}

\* A configuration of two rules was validated with one rule disabled by
\* name, which leaves the other one active.
C19_Witness ==
    /\ pc = "loaded"
    /\ ~cfg.DisableAll
    /\ Len(cfg.Rules) = 2
    /\ cfg.Disabled = <<RuleSql.Name>>
    /\ DOMAIN cfg.active = {RuleHttp.Name}

\* The rules of other whose name no rule of old has, in their order.
NewRules(old, o) == SelectSeq(o, LAMBDA r : r.Name \notin RuleNames(old))

\* The last rule of the sequence s named n.
LastNamed(s, n) ==
    s[CHOOSE i \in DOMAIN s :
        s[i].Name = n /\ \A j \in DOMAIN s : s[j].Name = n => j <= i]

\* C20: merge(nil) leaves the configuration as it was and returns no error.
\* merge(other) keeps the length of c.Rules plus one place per rule of other
\* with a new name, these rules being appended in their order; a rule of c
\* no rule of other names keeps its place and content; and the rule of c
\* that a rule of other names is replaced, at its place, by that rule (of
\* several rules of one name, the last one of c is replaced, and the last
\* one of other is what stays).
C20_MergeRuleByRule ==
    [][Merge =>
        IF other = <<>> THEN cfg' = cfg /\ err' = NoError /\ pc' = "merged"
        ELSE
          /\ Len(cfg'.Rules) =
                Len(cfg.Rules) + Len(NewRules(cfg.Rules, other[1].Rules))
          /\ \A k \in 1..Len(NewRules(cfg.Rules, other[1].Rules)) :
                RuleYaml(cfg'.Rules[Len(cfg.Rules) + k]) =
                    RuleYaml(NewRules(cfg.Rules, other[1].Rules)[k])
          /\ \A p \in 1..Len(cfg.Rules) :
                IF /\ cfg.Rules[p].Name \in RuleNames(other[1].Rules)
                   /\ \A q \in 1..Len(cfg.Rules) :
                         cfg.Rules[q].Name = cfg.Rules[p].Name => q <= p
                THEN RuleYaml(cfg'.Rules[p]) =
                        RuleYaml(LastNamed(other[1].Rules, cfg.Rules[p].Name))
                ELSE cfg'.Rules[p] = cfg.Rules[p]]_vars

\* A merge replaced the second of two rules by a rule of its name with
\* other content, kept the first one, and appended a rule with a new name.
C20_Witness ==
    /\ pc = "merged"
    /\ other # <<>>
    /\ other[1].Rules = <<RuleSqlOther, RuleCtx>>
    /\ Len(cfg.Rules) = 3
    /\ RuleYaml(cfg.Rules[1]) = RuleYaml(RuleHttp)
    /\ RuleYaml(cfg.Rules[2]) = RuleYaml(RuleSqlOther)
    /\ RuleYaml(cfg.Rules[2]) # RuleYaml(RuleSql)
    /\ RuleYaml(cfg.Rules[3]) = RuleYaml(RuleCtx)

(***************************************************************************)
(* Concurrent runs.  The driver calls loader.run once per compilation      *)
(* unit, in parallel; every call copies the loader's configuration l.cfg   *)
(* (rule: <<>> when no file was given), builds an analyzer from the        *)
(* embedded configuration and the options, among them ConfigOpt of a       *)
(* Config the caller of NewAnalyzer supplied (other: <<>> when none), and  *)
(* narrows the result to the imports of its unit.  Of run i, cfg[i].copy   *)
(* is the copy taken, cfg[i].a the analyzer's configuration, unit[i] the   *)
(* import paths of its unit.  Config.merge stores the rules of the         *)
(* supplied Config by value: their Packages arrays and the Results they    *)
(* point to stay those of the supplied Config, so what a run writes into   *)
(* them is written into other, and a run reads them from other.            *)
(***************************************************************************)
Runs == 1..MaxRuns

\* loadDefaultConfig()
loadDefaultConfig == ConfigValidate(DefaultConfig)

\* One pass of the loop over the options of newAnalyzer for the option
\* ConfigOpt(o), v being [err, cfg] so far: the first error ends the loop.
ApplyOption(v, o) == IF v.err # NoError THEN v ELSE ConfigMerge(v.cfg, o)

\* The position in c.Rules of the rule named nm.
SharedAt(c, nm) == CHOOSE k \in 1..Len(c.Rules) : c.Rules[k].Name = nm

\* The supplied Config o once a run whose configuration c holds its rules
\* has written into their Results and Packages arrays.
WrittenBack(o, c) ==
    [o EXCEPT !.Rules =
        [j \in 1..Len(o.Rules) |->
            [o.Rules[j] EXCEPT
                !.Results = c.Rules[SharedAt(c, o.Rules[j].Name)].Results,
                !.Packages = c.Rules[SharedAt(c, o.Rules[j].Name)].Packages]]]

\* The rule rl of a run as it reads it: the Results and the Packages array
\* of a rule merged from the supplied Config o are those of o.
ReadRule(rl, o) ==
    IF \E j \in 1..Len(o.Rules) : o.Rules[j].Name = rl.Name
    THEN LET j == CHOOSE x \in 1..Len(o.Rules) : o.Rules[x].Name = rl.Name
         IN  [rl EXCEPT !.Results = o.Rules[j].Results,
                        !.Packages = o.Rules[j].Packages]
    ELSE rl

\* The configuration c of a run as it reads it.
ReadConfig(c, o) ==
    [c EXCEPT !.Rules = [k \in 1..Len(c.Rules) |-> ReadRule(c.Rules[k], o)],
              !.rules = [n \in DOMAIN c.rules |-> ReadRule(c.rules[n], o)],
              !.active = [n \in DOMAIN c.active |-> ReadRule(c.active[n], o)]]

\* The loader's configuration: none, or one a file was loaded into.
BasePool ==
    {<<>>, <<ConfigValidate(OverlapConfig).cfg>>,
     <<ConfigValidate(NewConfig(TRUE, <<>>, <<RuleSql.Name>>, <<RuleSql>>)).cfg>>}

\* The Config handed to ConfigOpt by the caller of NewAnalyzer: none, or a
\* literal of rules that replace or extend those of the embedded
\* configuration.
SuppliedPool ==
    {<<>>,
     <<NewConfig(FALSE, <<>>, <<>>, <<RuleSql>>)>>,
     <<NewConfig(FALSE, <<>>, <<>>, <<RuleSqlClose>>)>>,
     <<NewConfig(FALSE, <<RuleHttp.Name>>, <<>>, <<RuleSqlClose, RuleSql>>)>>,
     <<NewConfig(TRUE, <<>>, <<RuleSqlClose.Name>>, <<RuleSqlClose>>)>>}

\* The import paths of the units.
RunImports == {{PkgSql}, {PkgSqlx}, {PkgSql, PkgHttp}}

InitRun ==
    /\ rule \in BasePool
    /\ other \in SuppliedPool
    /\ unit \in [Runs -> RunImports]
    /\ cfg = [i \in Runs |-> [copy |-> <<>>, a |-> <<>>]]
    /\ pc = [i \in Runs |-> "start"]
    /\ err = [i \in Runs |-> NoError]
    /\ arg = <<>>
    /\ ret = FALSE
    /\ pos = 0
    /\ diags = EmptyMap

\* What l.cfg.copy() returned to run i as v, [err, cfg].
Copied(i, v) ==
    /\ cfg' = [cfg EXCEPT ![i].copy = <<v.cfg>>]
    /\ err' = [err EXCEPT ![i] = v.err]
    /\ pc' = [pc EXCEPT ![i] = IF v.err = NoError THEN "copied" ELSE "failed"]

\* loader.run of run i up to the options: the copy of l.cfg when there
\* is one.
CopyBase(i) ==
    /\ pc[i] = "start"
    /\ IF rule = <<>>
       THEN /\ pc' = [pc EXCEPT ![i] = "copied"]
            /\ UNCHANGED <<cfg, err>>
       ELSE Copied(i, ConfigCopy(rule[1]))
    /\ UNCHANGED <<rule, other, arg, ret, unit, pos, diags>>

\* newAnalyzer returned to run i with v, [err, cfg], the supplied Config
\* being o afterwards.
Analyzer(i, v, o) ==
    /\ cfg' = [cfg EXCEPT ![i].a = <<v.cfg>>]
    /\ err' = [err EXCEPT ![i] = v.err]
    /\ pc' = [pc EXCEPT ![i] = IF v.err = NoError THEN "configured" ELSE "failed"]
    /\ other' = o

\* The option ConfigOpt(other) of run i returned v: validate wrote into
\* the Results of the supplied rules.
Merged(i, v) == Analyzer(i, v, <<WrittenBack(other[1], v.cfg)>>)

\* The options of the caller after ConfigOpt(copy) left v.
Applied(i, v) ==
    IF v.err # NoError \/ other = <<>> THEN Analyzer(i, v, other)
    ELSE Merged(i, ConfigMerge(v.cfg, other))

\* newAnalyzer(opts...) of run i: the embedded configuration, then
\* ConfigOpt of the copy, then the options of the caller.
NewAnalyzer(i) ==
    /\ pc[i] = "copied"
    /\ Applied(i, ApplyOption(loadDefaultConfig, cfg[i].copy))
    /\ UNCHANGED <<rule, arg, ret, unit, pos, diags>>

\* buildConfig of run i left c: it wrote into the Packages arrays of the
\* active rules.
Activated(i, c) ==
    /\ cfg' = [cfg EXCEPT ![i].a = <<c>>]
    /\ pc' = [pc EXCEPT ![i] = IF DOMAIN c.active = {} THEN "skipped" ELSE "active"]
    /\ other' = IF other = <<>> THEN other ELSE <<WrittenBack(other[1], c)>>

\* a.buildConfig(pass.Pkg.Imports()) of run i.
Activate(i) ==
    /\ pc[i] = "configured"
    /\ Activated(i, buildConfig(IF other = <<>> THEN cfg[i].a[1]
                                ELSE ReadConfig(cfg[i].a[1], other[1]),
                                unit[i]))
    /\ UNCHANGED <<rule, err, arg, ret, unit, pos, diags>>

NextRun == \E i \in Runs : CopyBase(i) \/ NewAnalyzer(i) \/ Activate(i)

SpecRun == InitRun /\ [][NextRun]_vars

(***************************************************************************)
(* Properties of concurrent runs.                                          *)
(***************************************************************************)
\* C13: no step of any run writes to the loader's configuration or to the
\* Config supplied through ConfigOpt, the Packages arrays and the Results
\* of its rules included.
C13_RunsWriteOwnStateOnly == [][rule' = rule /\ other' = other]_vars

Cases ==
    {<<"nested", d>> : d \in 1..MaxDepth}
        \cup {<<n, 0>> : n \in {"vars", "second", "reassign", "fewer", "blank",
                                 "blank-unbound", "unbound"}}

\* The function body of a case.
CaseBody(f, c) ==
    CASE c[1] = "nested" ->
            <<FirstStmt(f, "assign")>> \o NestedStmts(f, c[2])
      \* x, y := db.Q(""); for x.Next() {}; o := T{}; o.Err()
      [] c[1] = "vars" ->
            <<FirstStmt(f, "assign"), StmtLoop(f),
              AssignStmt(<<VarO(f)>>, <<BasicLit>>), StmtCall(f, VarO(f))>>
      \* x, _ := db.Q(""); for x.Next() {}; x2, y := db.Q(""); x2.Err()
      [] c[1] = "second" ->
            <<FirstStmt(f, "assign"), StmtLoop(f),
              AssignStmt(Binding(f, VarX2(f)), <<Producer(f)>>), StmtCall(f, VarX2(f))>>
      \* x, y := db.Q(""); x1 := x; x1.Err(); x, y = db.Q(""); x1.Err()
      [] c[1] = "reassign" ->
            <<FirstStmt(f, "assign"), StmtAlias(f, 1), StmtCall(f, Alias(f, 1)),
              FirstStmt(f, "assign"), StmtCall(f, Alias(f, 1))>>
      \* n := use(db.Q("")); for x.Next() {}
      [] c[1] = "fewer" ->
            <<AssignStmt(<<VarN>>, <<CallExpr(VarUse, <<Producer(f)>>, <<>>)>>),
              StmtLoop(f)>>
      \* _, y := db.Q(""); for x.Next() {}
      [] c[1] = "blank" ->
            <<AssignStmt(Binding(f, BlankDecl), <<Producer(f)>>), StmtLoop(f)>>
      \* _, y = db.Q(""); g.Err()
      [] c[1] = "blank-unbound" ->
            <<AssignStmt(Binding(f, Blank), <<Producer(f)>>), StmtCall(f, VarG(f))>>
      \* g, y = db.Q(""); for x.Next() {}; o.Err()
      [] c[1] = "unbound" ->
            <<AssignStmt(Binding(f, VarG(f)), <<Producer(f)>>), StmtLoop(f),
              StmtCall(f, VarO(f))>>

CaseUnit(f, c, imp) ==
    [fam |-> f, kind |-> c[1], depth |-> c[2], cfg |-> DefaultConfig,
     imports |-> imp, globals |-> <<>>, body |-> CaseBody(f, c)]

InitCase ==
    /\ \E f \in Fams, c \in Cases :
          \E imp \in {{f.pkg}, {f.pkg, f.otherPkg}} : unit = CaseUnit(f, c, imp)
    /\ cfg = ConfigValidate(unit.cfg).cfg
    /\ pc = "run"
    /\ pos = 1
    /\ diags = EmptyMap
    /\ rule = <<>>
    /\ other = <<>>
    /\ err = NoError
    /\ arg = <<>>
    /\ ret = FALSE

SpecCase == InitCase /\ [][Next]_vars

\* A call-site check seen from both ends: the analysis of a unit, which
\* runs the tracker once per active rule, or the tracker's own loop over a
\* statement list.
InitCheck == InitCase \/ InitVisit

NextCheck == Next \/ NextVisit

SpecCheck == InitCheck /\ [][NextCheck]_vars

(***************************************************************************)
(* Properties of the cases.                                                *)
(***************************************************************************)
\* The orders in which a range over a map with the keys S can hand them out.
Orders(S) ==
    {o \in [1..Cardinality(S) -> S] : \A i, j \in DOMAIN o : o[i] = o[j] => i = j}

RECURSIVE CheckAllInOrder(_, _, _, _, _)
\* The loop over a.cfg.active that ends analyzer.checkRule, the range
\* handing out the names in the order ord.
CheckAllInOrder(active, ord, site, ident, stmts) ==
    IF ord = <<>> THEN <<>>
    ELSE IF visit(active[Head(ord)], ident, stmts)
    THEN CheckAllInOrder(active, Tail(ord), site, ident, stmts)
    ELSE <<report(site, "ident", ident, active[Head(ord)], ident.name)>>
            \o CheckAllInOrder(active, Tail(ord), site, ident, stmts)

RECURSIVE DiagsInOrder(_, _, _, _)
\* The loop over a.cfg.active of analyzer.visit, the range handing out the
\* names in the order ord.
DiagsInOrder(active, ord, site, s) ==
    IF ord = <<>> THEN <<>>
    ELSE checkRule(active, active[Head(ord)], site, s).diags
            \o DiagsInOrder(active, Tail(ord), site, s)

\* The call expressions below the statement n whose callee is an
\* identifier.
IdentCalls(n) ==
    {SitesIn(n, <<>>)[i].call :
        i \in {j \in 1..Len(SitesIn(n, <<>>)) : SitesIn(n, <<>>)[j].call.fun.k = "ident"}}

\* For the next call expression of a unit: whatever the order of the range
\* over the active rules, in analyzer.visit and in checkRule, the reports
\* are the same bag.
RuleOrderIndependent ==
    (pc = "visit" /\ pos <= Len(Sites(unit))) =>
        /\ (/\ Inspected(Sites(unit)[pos])
            /\ Panicking(cfg.active, pos, Sites(unit)[pos]) = {}) =>
              \A ord \in Orders(DOMAIN cfg.active) :
                  BagAddAll(EmptyMap, DiagsInOrder(cfg.active, ord, pos, Sites(unit)[pos])) =
                      BagAddAll(EmptyMap,
                                DiagsOf(cfg.active, DOMAIN cfg.active, pos,
                                        Sites(unit)[pos]))
        /\ \A ord \in Orders(DOMAIN cfg.active) :
              BagAddAll(EmptyMap,
                        CheckAllInOrder(cfg.active, ord, pos, VarX(unit.fam),
                                        Tail(unit.body))) =
                  BagAddAll(EmptyMap,
                            CheckAll(cfg.active, DOMAIN cfg.active, pos,
                                     VarX(unit.fam), Tail(unit.body)))

\* For the next statement of the tracker: whatever the order of the range
\* over the alias set, a call of an identifier with an identifier argument
\* is judged as the membership of the argument's object in the alias set
\* and of the position in the table of the callee.
AliasOrderIndependent ==
    (pc = "walk" /\ pos <= Len(unit.stmts)) =>
        \A c \in IdentCalls(unit.stmts[pos]) :
            \A i \in {j \in 1..Len(c.args) : c.args[j].k = "ident"} :
                \A objs \in Orders(arg.identObjs) :
                    RangeIdentObjs(objs, arg, c, c.fun, i)
                        = (/\ c.args[i].obj \in arg.identObjs
                           /\ <<c.fun.obj, i - 1>> \in arg.calledArgs)

\* A pass of the loop of visit returns or moves on to the next statement
\* of the list: the number of statements left is a variant of the loop.
LoopVariant ==
    pc = "walk" =>
        \/ pc' = "returned"
        \/ pc' = "walk" /\ pos <= Len(unit.stmts) /\ pos' = pos + 1

OfFamilyRule == {d \in DOMAIN diags : d.rule = unit.fam.rule.Name}

\* C25: when a variable of the watched type that is no alias of x, or the
\* identifier bound by a second producing call, receives the expected
\* call, the first producing call is still reported for x by its rule, and
\* the second producing call, whose own identifier received the expected
\* call, is not reported by that rule.
C25_OtherIdentifierDoesNotDischarge ==
    (pc = "done" /\ unit.kind \in {"vars", "second"}) =>
        /\ \E d \in OfFamilyRule :
              d.site = 1 /\ d.at = "ident" /\ d.node = VarX(unit.fam)
        /\ \A d \in OfFamilyRule : d.site = 1

\* The unit with two producing calls has been analysed: the one report is
\* that of the first call, for x.
C25_Witness ==
    /\ pc = "done"
    /\ unit.kind = "second"
    /\ unit.fam = FamSql
    /\ unit.imports = {PkgSql}
    /\ Sites(unit)[3].call = Producer(FamSql)
    /\ Cardinality(DOMAIN diags) = 1
    /\ \A d \in DOMAIN diags : d.site = 1 /\ d.node = VarX(FamSql)

\* C26: when x is assigned again from a second producing call, the alias
\* x1 made from x before that statement is no alias in the check of the
\* second call: the expected call on x1 that follows does not discharge
\* it and the second call is reported at x by its rule, while the first
\* call, followed by x1 := x and the expected call on x1, is not.
C26_OnlySuffixExtendsAliases ==
    (pc = "done" /\ unit.kind = "reassign") =>
        /\ \E d \in OfFamilyRule :
              d.site = 3 /\ d.at = "ident" /\ d.node = VarX(unit.fam)
        /\ \A d \in OfFamilyRule : d.site = 3

\* The unit that assigns x twice has been analysed: its third call is the
\* second producing call and the one report of the rule is there.
C26_Witness ==
    /\ pc = "done"
    /\ unit.kind = "reassign"
    /\ unit.fam = FamSql
    /\ unit.imports = {PkgSql}
    /\ Sites(unit)[3].call = Producer(FamSql)
    /\ Sites(unit)[3].stmts[1].lhs[1] = VarX(FamSql)
    /\ Len(Sites(unit)[3].stmts) = 2
    /\ \E d \in DOMAIN diags : d.site = 3 /\ d.node = VarX(FamSql)
    /\ \A d \in DOMAIN diags : d.site = 3

\* C28: the analysis of a unit whose producing call is an argument of
\* another call, in an assignment with a single left-hand side, never
\* ends in a run-time fault of checkRule.
C28_CheckRuleNeverFaults ==
    unit.kind = "fewer" => pc # "panic"

\* C29: a producing call whose expected result goes to the blank
\* identifier, or to an identifier the parser resolved no object for, is
\* reported by its rule under the name of that identifier, whatever
\* follows it, an expected call on another identifier without object
\* included.
C29_UnboundIsNeverTracked ==
    (pc = "done" /\ unit.kind \in {"blank", "blank-unbound", "unbound"}) =>
        \E d \in OfFamilyRule :
            /\ d.site = 1
            /\ d.at = "ident"
            /\ d.node.name \in {Blank.name, VarG(unit.fam).name}

=============================================================================
